---- MODULE Spec2Model ----
(***************************************************************************)
(* Skill Matching & Classification Engine                                  *)
(* (backend/nlp_service/skills_matcher.py, backend/nlp_service/main.py).   *)
(*                                                                         *)
(* Representation.                                                         *)
(*  - A Python str is a sequence of one-character strings, so that lower,  *)
(*    strip, split, `in`, comparison and the regular-expression filter of  *)
(*    _normalize are computed and not assumed.                             *)
(*  - A weight is held in halves (WeightUnit halves = 1.0): the code's     *)
(*    weights are integers 0..3 plus multiples of 0.5 added by the         *)
(*    frequency boost, so every weight the code computes is exact here.    *)
(*  - A cosine similarity is held in hundredths (SimUnit = 1.00).          *)
(***************************************************************************)
EXTENDS Integers, Sequences, FiniteSets, TLC

VARIABLES
    skill_lookup,       \* SkillOntology.skill_lookup : lower-cased name -> entry
    parent_map,         \* SkillOntology.parent_map   : lower-cased parent -> children
    classifier,         \* SkillClassifier: availability, embeddings loaded, counters
    encoder,            \* embedding provider: phrase -> outcome of encode and the three
                        \* maximum cosine similarities against the exemplar sets
    call,               \* the classifier or service call made last, with its arguments
    ret,                \* the value that call returned
    category,           \* is_technical_skill: the category it decided
    results,            \* extract_skills_with_phrasematcher: validated (skill, canonical, weight)
    matches,            \* value returned by collapse_overlapping_skills / the extraction
    custom_keywords,    \* custom_keywords.json: the keyword objects
    skills_db,          \* SkillsDatabase: loaded, skills, canonical maps, custom registry
    request,            \* the request served: text (tokens) and use_context_filter
    matched_skills_data, \* extraction: lower-cased match -> text, frequency, spans
    technical_skills_set, \* extraction: the set batch_classify_skills returned
    second_pass,        \* extraction: what the second pass decided for each candidate
    skill_tuples,       \* _extract_skills_internal: unique canonicals, sorted
    pc,                 \* position of the request being served
    _skills_db,         \* the module global _skills_db: None or the instance (skills_db)
    load_runs           \* how many times the body of SkillsDatabase.load was entered

\* the variables of load and extraction
extraction_vars == <<custom_keywords, skills_db, request, matched_skills_data,
                     technical_skills_set, second_pass, skill_tuples>>

\* the module global of get_skills_database and the history of load
process_vars == <<_skills_db, load_runs>>

vars == <<skill_lookup, parent_map, classifier, encoder, call, ret, category,
          results, matches, extraction_vars, pc, process_vars>>

\* Optional[SkillsDatabase]: _skills_db before get_skills_database has run, and
\* the one instance the process creates
None == "None"
TheInstance == "SkillsDatabase"

----------------------------------------------------------------------------
(* Python str operations                                                   *)

\* The Kelvin sign, U+212A: one character outside [A-Za-z0-9] whose lower case
\* is the letter k
KelvinSign == "U+212A"

\* The characters used, in code-point order (Python compares str by code point).
Chars ==
    <<" ", "#", "'", "(", ")", "+", ",", "-", ".", "/",
      "0", "1", "2", "3", "4", "5", "6", "7", "8", "9", ":", ";",
      "A", "B", "C", "D", "E", "F", "G", "H", "I", "J", "K", "L", "M",
      "N", "O", "P", "Q", "R", "S", "T", "U", "V", "W", "X", "Y", "Z", "_",
      "a", "b", "c", "d", "e", "f", "g", "h", "i", "j", "k", "l", "m",
      "n", "o", "p", "q", "r", "s", "t", "u", "v", "w", "x", "y", "z",
      KelvinSign>>

UpperCase ==
    <<"A", "B", "C", "D", "E", "F", "G", "H", "I", "J", "K", "L", "M",
      "N", "O", "P", "Q", "R", "S", "T", "U", "V", "W", "X", "Y", "Z">>

LowerCase ==
    <<"a", "b", "c", "d", "e", "f", "g", "h", "i", "j", "k", "l", "m",
      "n", "o", "p", "q", "r", "s", "t", "u", "v", "w", "x", "y", "z">>

Digits == {"0", "1", "2", "3", "4", "5", "6", "7", "8", "9"}

Range(f) == {f[i] : i \in DOMAIN f}

\* ord(c), as a table over the characters used
OrdOf == [c \in Range(Chars) |-> CHOOSE i \in 1..Len(Chars) : Chars[i] = c]

ord(c) == OrdOf[c]

char_lower(c) ==
    IF \E i \in 1..Len(UpperCase) : UpperCase[i] = c
    THEN LowerCase[CHOOSE i \in 1..Len(UpperCase) : UpperCase[i] = c]
    ELSE IF c = KelvinSign THEN "k"
    ELSE c

\* char_lower as a table over the characters used
LowerOf == [c \in Range(Chars) |-> char_lower(c)]

\* str.lower()
str_lower(s) == [i \in 1..Len(s) |-> LowerOf[s[i]]]

RECURSIVE str_lstrip(_)
str_lstrip(s) ==
    IF s # <<>> /\ Head(s) = " " THEN str_lstrip(Tail(s)) ELSE s

RECURSIVE str_rstrip(_)
str_rstrip(s) ==
    IF s # <<>> /\ s[Len(s)] = " " THEN str_rstrip(SubSeq(s, 1, Len(s) - 1)) ELSE s

\* str.strip()
str_strip(s) == str_rstrip(str_lstrip(s))

RECURSIVE split_words(_, _)
split_words(s, cur) ==
    IF s = <<>>
    THEN (IF cur = <<>> THEN <<>> ELSE <<cur>>)
    ELSE IF Head(s) = " "
         THEN (IF cur = <<>> THEN <<>> ELSE <<cur>>) \o split_words(Tail(s), <<>>)
         ELSE split_words(Tail(s), Append(cur, Head(s)))

\* str.split(): the words separated by runs of whitespace
str_split(s) == split_words(s, <<>>)

\* sub in s
str_in(sub, s) ==
    \E i \in 1..(Len(s) - Len(sub) + 1) : SubSeq(s, i, i + Len(sub) - 1) = sub

\* a < b on str (lexicographic by code point)
RECURSIVE str_less(_, _)
str_less(a, b) ==
    IF b = <<>> THEN FALSE
    ELSE IF a = <<>> THEN TRUE
    ELSE IF Head(a) = Head(b) THEN str_less(Tail(a), Tail(b))
    ELSE ord(Head(a)) < ord(Head(b))

\* " ".join(words)
RECURSIVE str_join(_)
str_join(words) ==
    IF words = <<>> THEN <<>>
    ELSE IF Len(words) = 1 THEN words[1]
    ELSE words[1] \o <<" ">> \o str_join(Tail(words))

\* the characters of [a-z0-9]
AlnumLower == Range(LowerCase) \cup Digits

is_alnum_lower(c) == c \in AlnumLower

\* the first character outside [a-z0-9] removed, the others left
RECURSIVE remove_first_other(_)
remove_first_other(s) ==
    IF s = <<>> THEN <<>>
    ELSE IF is_alnum_lower(Head(s)) THEN <<Head(s)>> \o remove_first_other(Tail(s))
    ELSE Tail(s)

\* a substitution that replaces one occurrence only
_normalize_first_only(text) == remove_first_other(str_lower(text))

\* SkillsDatabase._normalize: re.sub(r'[^a-z0-9]', '', text.lower())
_normalize(text) == SelectSeq(str_lower(text), is_alnum_lower)

----------------------------------------------------------------------------
(* Strings of the bounded universe                                         *)

S_Java == <<"J", "a", "v", "a">>
S_Spring == <<"S", "p", "r", "i", "n", "g">>
S_SpringBoot == <<"S", "p", "r", "i", "n", "g", " ", "B", "o", "o", "t">>
S_SpringMVC == <<"S", "p", "r", "i", "n", "g", " ", "M", "V", "C">>
S_SQL == <<"S", "Q", "L">>
S_Kafka == <<"K", "a", "f", "k", "a">>
S_Coding == <<"C", "o", "d", "i", "n", "g">>
S_Python == <<"P", "y", "t", "h", "o", "n">>
S_Sales == <<"S", "a", "l", "e", "s">>
S_RAG == <<"R", "A", "G">>
S_Jest == <<"J", "e", "s", "t">>
s_js == <<"j", "s">>
S_Uses == <<"U", "s", "e", "s">>
s_use == <<"u", "s", "e">>
S_PlusPlus == <<"+", "+">>

\* types of the ontology file
T_language == <<"l", "a", "n", "g", "u", "a", "g", "e">>
T_framework == <<"f", "r", "a", "m", "e", "w", "o", "r", "k">>

\* the same names as the ontology file and the tables of the module spell them
s_java == str_lower(S_Java)
s_spring == str_lower(S_Spring)
s_spring_boot == str_lower(S_SpringBoot)
s_spring_mvc == str_lower(S_SpringMVC)
s_sql == str_lower(S_SQL)

----------------------------------------------------------------------------
(* Tables of skills_matcher.py                                             *)

ALLOWED_SKILL_TYPES ==
    {
      <<"c", "l", "o", "u", "d">>, <<"d", "a", "t", "a", "b", "a", "s", "e">>,
      <<"f", "r", "a", "m", "e", "w", "o", "r", "k">>, <<"l", "a", "n", "g", "u", "a", "g", "e">>,
      <<"l", "i", "b", "r", "a", "r", "y">>,
      <<"m", "e", "t", "h", "o", "d", "o", "l", "o", "g", "y">>,
      <<"p", "l", "a", "t", "f", "o", "r", "m">>, <<"p", "r", "o", "t", "o", "c", "o", "l">>,
      <<"r", "u", "n", "t", "i", "m", "e">>, <<"s", "t", "a", "n", "d", "a", "r", "d">>,
      <<"t", "o", "o", "l">>
    }

INDUSTRY_TERMS ==
    {
      <<"b", "a", "k", "e", "r", "y">>, <<"b", "a", "n", "k", "i", "n", "g">>,
      <<"e", "d", "u", "c", "a", "t", "i", "o", "n">>, <<"f", "i", "n", "a", "n", "c", "e">>,
      <<"g", "r", "o", "c", "e", "r", "y">>, <<"h", "e", "a", "l", "t", "h", "c", "a", "r", "e">>,
      <<"h", "o", "s", "p", "i", "t", "a", "l", "i", "t", "y">>,
      <<"l", "o", "g", "i", "s", "t", "i", "c", "s">>,
      <<"m", "a", "n", "u", "f", "a", "c", "t", "u", "r", "i", "n", "g">>,
      <<"r", "e", "t", "a", "i", "l">>,
      <<"s", "u", "p", "p", "l", "y", " ", "c", "h", "a", "i", "n">>
    }

ABSTRACT_CONCEPTS ==
    {
      <<"a", "b", "l", "e">>, <<"a", "b", "o", "u", "t">>, <<"a", "g", "e">>, <<"a", "i">>,
      <<"a", "l", "l">>, <<"a", "n", "a", "l", "y", "z", "e">>, <<"a", "p", "a", "r", "t">>,
      <<"a", "p", "i">>, <<"a", "p", "i", "s">>, <<"a", "p", "p">>,
      <<"a", "p", "p", "l", "i", "c", "a", "t", "i", "o", "n">>,
      <<"a", "p", "p", "l", "i", "c", "a", "t", "i", "o", "n", "s">>, <<"a", "p", "p", "l", "y">>,
      <<"a", "p", "p", "r", "o", "a", "c", "h">>,
      <<"a", "p", "p", "r", "o", "a", "c", "h", "e", "s">>,
      <<"a", "r", "c", "h", "i", "t", "e", "c", "t", "u", "r", "e">>,
      <<"a", "r", "c", "h", "i", "t", "e", "c", "t", "u", "r", "e", "s">>, <<"a", "r", "e">>,
      <<"a", "r", "o", "u", "n", "d">>,
      <<"a", "u", "t", "h", "o", "r", "i", "z", "a", "t", "i", "o", "n">>,
      <<"a", "v", "a", "i", "l", "a", "b", "i", "l", "i", "t", "y">>, <<"b", "a", "c", "k">>,
      <<"b", "a", "c", "k", " ", "e", "n", "d">>, <<"b", "a", "c", "k", "-", "e", "n", "d">>,
      <<"b", "a", "c", "k", "e", "n", "d">>, <<"b", "a", "c", "k", "g", "r", "o", "u", "n", "d">>,
      <<"b", "a", "c", "k", "g", "r", "o", "u", "n", "d", "s">>, <<"b", "e", "f", "o", "r", "e">>,
      <<"b", "e", "t", "w", "e", "e", "n">>, <<"b", "i", "g">>,
      <<"b", "l", "o", "g", "g", "i", "n", "g">>, <<"b", "u", "i", "l", "d">>,
      <<"b", "u", "i", "l", "d", "i", "n", "g">>, <<"b", "u", "i", "l", "t">>,
      <<"b", "u", "s", "i", "n", "e", "s", "s">>,
      <<"b", "u", "s", "i", "n", "e", "s", "s", " ", "c", "o", "n", "t", "e", "x", "t">>,
      <<"c", "a", "c", "h", "i", "n", "g">>, <<"c", "a", "r", "e", "e", "r">>,
      <<"c", "h", "a", "l", "l", "e", "n", "g", "e">>, <<"c", "h", "a", "n", "c", "e", "s">>,
      <<"c", "h", "a", "o", "t", "i", "c">>, <<"c", "l", "i", "c", "k">>,
      <<"c", "l", "i", "e", "n", "t">>, <<"c", "l", "o", "u", "d">>,
      <<"c", "l", "o", "u", "d", " ", "i", "n", "f", "r", "a", "s", "t", "r", "u", "c", "t", "u", "r", "e">>,
      <<"c", "o", "d", "e", " ", "r", "e", "v", "i", "e", "w">>,
      <<"c", "o", "d", "e", " ", "r", "e", "v", "i", "e", "w", "s">>,
      <<"c", "o", "l", "l", "a", "b", "o", "r", "a", "t", "e">>,
      <<"c", "o", "l", "l", "a", "b", "o", "r", "a", "t", "i", "o", "n">>,
      <<"c", "o", "l", "o", "r">>, <<"c", "o", "m", "m", "u", "n", "i", "t", "y">>,
      <<"c", "o", "m", "p", "a", "n", "i", "e", "s">>,
      <<"c", "o", "m", "p", "e", "t", "i", "t", "i", "v", "e">>,
      <<"c", "o", "m", "p", "l", "e", "t", "e">>,
      <<"c", "o", "m", "p", "o", "n", "e", "n", "t", " ", "l", "i", "b", "r", "a", "r", "i", "e", "s">>,
      <<"c", "o", "m", "p", "o", "n", "e", "n", "t", " ", "l", "i", "b", "r", "a", "r", "y">>,
      <<"c", "o", "n", "s", "t", "r", "a", "i", "n", "t", "s">>,
      <<"c", "o", "n", "s", "u", "m", "e", "r">>,
      <<"c", "o", "n", "s", "u", "m", "e", "r", "-", "t", "e", "c", "h">>,
      <<"c", "o", "n", "t", "a", "i", "n", "e", "r", "s">>,
      <<"c", "o", "n", "t", "r", "a", "c", "t", "o", "r", "s">>,
      <<"c", "o", "n", "t", "r", "i", "b", "u", "t", "i", "n", "g">>,
      <<"c", "o", "o", "p", "e", "r", "a", "t", "i", "o", "n">>,
      <<"c", "o", "r", "p", "o", "r", "a", "t", "e", " ", "c", "a", "r", "d">>,
      <<"c", "o", "r", "r", "e", "c", "t">>, <<"c", "r", "a", "f", "t">>,
      <<"c", "r", "e", "d", "i", "t">>, <<"c", "s">>, <<"c", "u", "l", "t", "u", "r", "e">>,
      <<"c", "u", "s", "t", "o", "m", "e", "r">>, <<"c", "u", "s", "t", "o", "m", "e", "r", "s">>,
      <<"c", "y", "b", "e", "r">>,
      <<"c", "y", "b", "e", "r", " ", "s", "e", "c", "u", "r", "i", "t", "y">>,
      <<"c", "y", "b", "e", "r", "s", "e", "c", "u", "r", "i", "t", "y">>,
      <<"d", "a", "t", "a", "b", "a", "s", "e">>, <<"d", "a", "t", "a", "b", "a", "s", "e", "s">>,
      <<"d", "e", "c", "i", "s", "i", "o", "n", "s">>, <<"d", "e", "p", "l", "o", "y">>,
      <<"d", "e", "p", "l", "o", "y", "m", "e", "n", "t">>, <<"d", "e", "s", "i", "g", "n">>,
      <<"d", "e", "s", "i", "g", "n", " ", "p", "a", "t", "t", "e", "r", "n">>,
      <<"d", "e", "s", "i", "g", "n", " ", "p", "a", "t", "t", "e", "r", "n", "s">>,
      <<"d", "e", "s", "i", "g", "n", "i", "n", "g">>, <<"d", "e", "t", "a", "i", "l", "s">>,
      <<"d", "e", "v", "e", "l", "o", "p">>, <<"d", "e", "v", "e", "l", "o", "p", "e", "r", "s">>,
      <<"d", "e", "v", "e", "l", "o", "p", "i", "n", "g">>,
      <<"d", "e", "v", "e", "l", "o", "p", "m", "e", "n", "t">>,
      <<"d", "i", "g", "i", "t", "a", "l">>,
      <<"d", "i", "g", "i", "t", "a", "l", " ", "t", "r", "a", "n", "s", "f", "o", "r", "m", "a", "t", "i", "o", "n">>,
      <<"d", "i", "g", "i", "t", "a", "l", "i", "z", "a", "t", "i", "o", "n">>,
      <<"d", "i", "s", "a", "b", "i", "l", "i", "t", "y">>,
      <<"d", "i", "s", "a", "b", "i", "l", "i", "t", "y", " ", "i", "n", "s", "u", "r", "a", "n", "c", "e">>,
      <<"d", "i", "s", "c", "r", "i", "m", "i", "n", "a", "t", "i", "o", "n">>,
      <<"d", "i", "s", "t", "r", "i", "b", "u", "t", "e", "d">>,
      <<"d", "i", "s", "t", "r", "i", "b", "u", "t", "e", "d", " ", "s", "y", "s", "t", "e", "m", "s">>,
      <<"d", "i", "v", "e">>, <<"d", "i", "v", "e", "r", "s", "i", "t", "y">>,
      <<"d", "o", "c", "u", "m", "e", "n", "t", " ", "o", "b", "j", "e", "c", "t", " ", "m", "o", "d", "e", "l">>,
      <<"d", "o", "m">>, <<"d", "o", "n", "'", "t">>, <<"d", "u", "t", "i", "e", "s">>,
      <<"d", "u", "t", "y">>, <<"e", "2", "e">>,
      <<"e", "2", "e", " ", "t", "e", "s", "t", "i", "n", "g">>, <<"e", "a", "r", "l", "y">>,
      <<"e", "a", "s", "y">>, <<"e", "e", "o">>,
      <<"e", "n", "d", " ", "t", "o", " ", "e", "n", "d">>,
      <<"e", "n", "d", "-", "t", "o", "-", "e", "n", "d">>,
      <<"e", "n", "g", "i", "n", "e", "e", "r", "i", "n", "g">>,
      <<"e", "n", "g", "i", "n", "e", "e", "r", "s">>, <<"e", "n", "j", "o", "y">>,
      <<"e", "n", "s", "u", "r", "i", "n", "g">>,
      <<"e", "n", "v", "i", "r", "o", "n", "m", "e", "n", "t">>,
      <<"e", "n", "v", "i", "r", "o", "n", "m", "e", "n", "t", "s">>,
      <<"e", "q", "u", "a", "l", " ", "e", "m", "p", "l", "o", "y", "m", "e", "n", "t", " ", "o", "p", "p", "o", "r", "t", "u", "n", "i", "t", "y">>,
      <<"e", "q", "u", "i", "t", "y">>, <<"e", "x", "p", "e", "r", "i", "e", "n", "c", "e">>,
      <<"e", "x", "p", "e", "r", "i", "e", "n", "c", "e", "s">>, <<"f", "a", "s", "t">>,
      <<"f", "a", "s", "t", "e", "r">>, <<"f", "e", "a", "t", "u", "r", "e", "s">>,
      <<"f", "i", "n", "d">>, <<"f", "i", "n", "i", "s", "h">>,
      <<"f", "i", "n", "t", "e", "c", "h">>, <<"f", "i", "t">>, <<"f", "o", "r">>,
      <<"f", "o", "r", "m">>, <<"f", "o", "u", "n", "d", "i", "n", "g">>, <<"f", "r", "o", "m">>,
      <<"f", "r", "o", "n", "t", " ", "e", "n", "d">>,
      <<"f", "r", "o", "n", "t", "-", "e", "n", "d">>, <<"f", "r", "o", "n", "t", "e", "n", "d">>,
      <<"f", "u", "l", "l", "-", "s", "t", "a", "c", "k">>, <<"g", "e", "n", "d", "e", "r">>,
      <<"g", "e", "t">>, <<"g", "e", "t", "t", "i", "n", "g">>, <<"g", "i", "v", "e">>,
      <<"g", "o", "a", "l">>, <<"g", "r", "e", "a", "t">>,
      <<"g", "r", "e", "a", "t", " ", "f", "i", "t">>, <<"g", "r", "o", "u", "n", "d", "s">>,
      <<"h", "a", "n", "d", "l", "e">>, <<"h", "a", "r", "a", "s", "s", "m", "e", "n", "t">>,
      <<"h", "e", "a", "l", "t", "h", " ", "i", "n", "s", "u", "r", "a", "n", "c", "e">>,
      <<"h", "e", "l", "p">>, <<"h", "e", "s", "i", "t", "a", "t", "e">>,
      <<"h", "i", "r", "e", "d">>, <<"h", "i", "r", "i", "n", "g">>,
      <<"h", "y", "b", "r", "i", "d", " ", "c", "l", "o", "u", "d">>, <<"i", "f">>,
      <<"i", "n", "c", "i", "d", "e", "n", "t", "s">>,
      <<"i", "n", "c", "l", "u", "s", "i", "o", "n">>, <<"i", "n", "c", "r", "e", "a", "s", "e">>,
      <<"i", "n", "d", "u", "s", "t", "r", "y">>,
      <<"i", "n", "f", "r", "a", "s", "t", "r", "u", "c", "t", "u", "r", "e">>,
      <<"i", "n", "s", "u", "r", "a", "n", "c", "e">>,
      <<"i", "n", "t", "e", "g", "r", "a", "t", "i", "o", "n">>,
      <<"i", "n", "t", "e", "r", "v", "i", "e", "w">>, <<"i", "n", "v", "o", "l", "v", "e", "d">>,
      <<"i", "n", "v", "o", "l", "v", "e", "s">>, <<"i", "s", "s", "u", "e", "s">>, <<"i", "t">>,
      <<"j", "o", "i", "n", "i", "n", "g">>, <<"j", "u", "s", "t">>,
      <<"l", "a", "r", "g", "e", " ", "s", "c", "a", "l", "e">>,
      <<"l", "a", "r", "g", "e", "-", "s", "c", "a", "l", "e">>,
      <<"l", "a", "t", "e", "n", "c", "i", "e", "s">>,
      <<"l", "e", "a", "r", "n", "i", "n", "g", " ", "p", "r", "o", "g", "r", "a", "m", "s">>,
      <<"l", "e", "v", "e", "l">>, <<"l", "e", "v", "e", "r", "a", "g", "e">>,
      <<"l", "i", "f", "e", " ", "i", "n", "s", "u", "r", "a", "n", "c", "e">>,
      <<"l", "i", "n", "k", "e", "d", "i", "n", " ", "l", "e", "a", "r", "n", "i", "n", "g">>,
      <<"l", "o", "g">>, <<"l", "o", "g", "i", "n">>, <<"l", "o", "v", "e">>,
      <<"m", "a", "k", "e">>, <<"m", "a", "n", "y">>, <<"m", "e", "e", "t">>,
      <<"m", "e", "n", "t", "o", "r", "i", "n", "g">>, <<"m", "e", "t", "h", "o", "d">>,
      <<"m", "e", "t", "h", "o", "d", "s">>,
      <<"m", "i", "c", "r", "o", " ", "s", "e", "r", "v", "i", "c", "e", "s">>,
      <<"m", "i", "c", "r", "o", "-", "s", "e", "r", "v", "i", "c", "e">>,
      <<"m", "i", "c", "r", "o", "s", "e", "r", "v", "i", "c", "e">>,
      <<"m", "i", "c", "r", "o", "s", "e", "r", "v", "i", "c", "e", "s">>,
      <<"m", "i", "l", "l", "i", "o", "n">>,
      <<"m", "i", "l", "l", "i", "s", "e", "c", "o", "n", "d">>,
      <<"m", "o", "n", "i", "t", "o", "r", "i", "n", "g">>, <<"m", "o", "r", "e">>,
      <<"n", "a", "t", "i", "o", "n", "a", "l", " ", "o", "r", "i", "g", "i", "n">>,
      <<"n", "e", "e", "d">>, <<"n", "e", "e", "d", "s">>, <<"n", "e", "w">>,
      <<"n", "e", "x", "t">>,
      <<"n", "o", "s", "q", "l", " ", "d", "a", "t", "a", "b", "a", "s", "e", "s">>,
      <<"n", "o", "t", "e">>, <<"n", "o", "t", "i", "c", "e", " ", "p", "e", "r", "i", "o", "d">>,
      <<"o", "b", "j", "e", "c", "t", "-", "o", "r", "i", "e", "n", "t", "e", "d", " ", "p", "r", "o", "g", "r", "a", "m", "m", "i", "n", "g">>,
      <<"o", "f", "t", "e", "n">>, <<"o", "n">>,
      <<"o", "p", "e", "n", " ", "s", "o", "u", "r", "c", "e">>,
      <<"o", "p", "p", "o", "r", "t", "u", "n", "i", "t", "i", "e", "s">>,
      <<"o", "p", "p", "o", "r", "t", "u", "n", "i", "t", "y">>,
      <<"o", "r", "g", " ", "s", "t", "r", "u", "c", "t", "u", "r", "e">>, <<"o", "u", "r">>,
      <<"o", "u", "t", "a", "g", "e", "s">>, <<"o", "w", "n">>, <<"p", "a", "r", "t">>,
      <<"p", "a", "y", "m", "e", "n", "t", "s">>,
      <<"p", "e", "r", "f", "o", "r", "m", "a", "n", "c", "e">>,
      <<"p", "l", "a", "c", "e", "m", "e", "n", "t">>, <<"p", "l", "a", "t", "f", "o", "r", "m">>,
      <<"p", "l", "a", "t", "f", "o", "r", "m", "s">>, <<"p", "l", "u", "s">>,
      <<"p", "o", "r", "t", "a", "l">>, <<"p", "r", "e", "g", "n", "a", "n", "c", "y">>,
      <<"p", "r", "e", "p", "a", "r", "e">>,
      <<"p", "r", "i", "v", "a", "t", "e", " ", "c", "l", "o", "u", "d">>,
      <<"p", "r", "o", "c", "e", "s", "s">>, <<"p", "r", "o", "c", "e", "s", "s", "e", "s">>,
      <<"p", "r", "o", "d", "u", "c", "t">>,
      <<"p", "r", "o", "d", "u", "c", "t", " ", "d", "e", "v", "e", "l", "o", "p", "m", "e", "n", "t">>,
      <<"p", "r", "o", "d", "u", "c", "t", " ", "l", "i", "n", "e", "s">>,
      <<"p", "r", "o", "d", "u", "c", "t", "s">>,
      <<"p", "r", "o", "g", "r", "a", "m", "m", "e", "r", "s">>,
      <<"p", "r", "o", "g", "r", "a", "m", "m", "i", "n", "g">>,
      <<"p", "r", "o", "g", "r", "e", "s", "s">>,
      <<"p", "u", "b", "l", "i", "c", " ", "c", "l", "o", "u", "d">>,
      <<"q", "u", "a", "l", "i", "f", "i", "c", "a", "t", "i", "o", "n">>,
      <<"q", "u", "a", "l", "i", "f", "i", "c", "a", "t", "i", "o", "n", "s">>,
      <<"q", "u", "a", "l", "i", "t", "y">>, <<"r", "a", "c", "e">>, <<"r", "e", "a", "d", "y">>,
      <<"r", "e", "a", "l">>, <<"r", "e", "a", "l", "t", "i", "m", "e">>,
      <<"r", "e", "a", "l", "t", "i", "m", "e", " ", "d", "a", "t", "a", "b", "a", "s", "e">>,
      <<"r", "e", "a", "l", "t", "i", "m", "e", " ", "d", "b">>,
      <<"r", "e", "g", "i", "s", "t", "e", "r">>,
      <<"r", "e", "l", "a", "t", "i", "o", "n", "a", "l", " ", "d", "a", "t", "a", "b", "a", "s", "e", "s">>,
      <<"r", "e", "l", "e", "v", "a", "n", "t">>, <<"r", "e", "l", "i", "a", "b", "l", "e">>,
      <<"r", "e", "l", "i", "g", "i", "o", "n">>, <<"r", "e", "p", "o", "r", "t", "s">>,
      <<"r", "e", "q", "u", "i", "r", "e", "d">>,
      <<"r", "e", "q", "u", "i", "r", "e", "m", "e", "n", "t">>,
      <<"r", "e", "q", "u", "i", "r", "e", "m", "e", "n", "t", "s">>,
      <<"r", "e", "s", "e", "a", "r", "c", "h">>,
      <<"r", "e", "s", "e", "a", "r", "c", "h", "e", "r", "s">>,
      <<"r", "e", "s", "p", "o", "n", "s", "i", "b", "i", "l", "i", "t", "i", "e", "s">>,
      <<"r", "e", "s", "p", "o", "n", "s", "i", "b", "i", "l", "i", "t", "y">>,
      <<"r", "e", "s", "t", " ", "a", "p", "i">>, <<"r", "e", "s", "t", " ", "a", "p", "i", "s">>,
      <<"r", "e", "s", "t", "f", "u", "l", " ", "a", "p", "i">>,
      <<"r", "e", "s", "t", "f", "u", "l", " ", "a", "p", "i", "s">>,
      <<"r", "e", "s", "u", "m", "e">>, <<"r", "o", "c", "k", "e", "t">>, <<"r", "o", "l", "e">>,
      <<"r", "o", "o", "t">>, <<"r", "o", "o", "t", " ", "c", "a", "u", "s", "e">>,
      <<"s", "a", "a", "s">>, <<"s", "a", "l", "a", "r", "y">>,
      <<"s", "c", "a", "l", "a", "b", "i", "l", "i", "t", "y">>,
      <<"s", "c", "r", "a", "t", "c", "h">>, <<"s", "c", "r", "e", "e", "n", "i", "n", "g">>,
      <<"s", "c", "r", "i", "p", "t", "i", "n", "g">>, <<"s", "e", "c", "u", "r", "i", "t", "y">>,
      <<"s", "e", "r", "v", "i", "c", "e">>, <<"s", "e", "r", "v", "i", "c", "e", "s">>,
      <<"s", "h", "o", "r", "t", "l", "i", "s", "t", "e", "d">>, <<"s", "i", "m", "p", "l", "e">>,
      <<"s", "o">>, <<"s", "o", "f", "t", "w", "a", "r", "e">>,
      <<"s", "o", "f", "t", "w", "a", "r", "e", " ", "a", "r", "c", "h", "i", "t", "e", "c", "t", "u", "r", "e">>,
      <<"s", "o", "l", "u", "t", "i", "o", "n">>, <<"s", "o", "l", "u", "t", "i", "o", "n", "s">>,
      <<"s", "o", "l", "v", "i", "n", "g">>, <<"s", "p", "e", "e", "d">>,
      <<"s", "t", "a", "g", "e">>, <<"s", "t", "a", "r", "t">>,
      <<"s", "t", "a", "r", "t", " ", "t", "o", " ", "f", "i", "n", "i", "s", "h">>,
      <<"s", "t", "a", "r", "t", " ", "u", "p">>,
      <<"s", "t", "a", "r", "t", "-", "t", "o", "-", "f", "i", "n", "i", "s", "h">>,
      <<"s", "t", "a", "r", "t", "-", "u", "p">>, <<"s", "t", "a", "r", "t", "u", "p">>,
      <<"s", "t", "a", "t", "e", " ", "m", "a", "n", "a", "g", "e", "m", "e", "n", "t">>,
      <<"s", "t", "e", "p">>,
      <<"s", "u", "s", "t", "a", "i", "n", "a", "b", "l", "e", " ", "g", "r", "o", "w", "t", "h">>,
      <<"s", "y", "s", "t", "e", "m">>,
      <<"s", "y", "s", "t", "e", "m", " ", "a", "r", "c", "h", "i", "t", "e", "c", "t", "u", "r", "e">>,
      <<"s", "y", "s", "t", "e", "m", "s">>, <<"t", "a", "k", "e">>,
      <<"t", "a", "l", "e", "n", "t">>, <<"t", "a", "l", "e", "n", "t", "s">>,
      <<"t", "e", "a", "m">>, <<"t", "e", "a", "m", "s">>, <<"t", "e", "c", "h">>,
      <<"t", "e", "c", "h", "n", "o", "l", "o", "g", "i", "e", "s">>,
      <<"t", "e", "c", "h", "n", "o", "l", "o", "g", "y">>,
      <<"t", "e", "r", "m", " ", "l", "i", "f", "e", " ", "i", "n", "s", "u", "r", "a", "n", "c", "e">>,
      <<"t", "e", "s", "t", "i", "n", "g">>, <<"t", "h", "a", "n">>, <<"t", "h", "e", "i", "r">>,
      <<"t", "h", "e", "r", "e">>, <<"t", "h", "i", "s">>, <<"t", "h", "r", "o", "u", "g", "h">>,
      <<"t", "i", "m", "e">>, <<"t", "o", "d", "a", "y">>,
      <<"t", "o", "p", "-", "n", "o", "t", "c", "h">>,
      <<"t", "r", "a", "d", "e", "o", "f", "f", "s">>, <<"u", "i">>,
      <<"u", "n", "d", "e", "r", "s", "t", "a", "n", "d">>,
      <<"u", "n", "i", "t", " ", "t", "e", "s", "t", "i", "n", "g">>,
      <<"u", "p", "d", "a", "t", "e", "d">>, <<"u", "p", "l", "o", "a", "d">>,
      <<"u", "s", "e", "r", " ", "e", "x", "p", "e", "r", "i", "e", "n", "c", "e">>,
      <<"u", "s", "e", "r", " ", "f", "e", "e", "d", "b", "a", "c", "k">>,
      <<"u", "s", "e", "r", " ", "i", "n", "t", "e", "r", "f", "a", "c", "e">>, <<"u", "x">>,
      <<"v", "a", "l", "u", "e", " ", "p", "r", "o", "p", "o", "s", "i", "t", "i", "o", "n">>,
      <<"v", "e", "t", "e", "r", "a", "n">>, <<"w", "a", "i", "t", "i", "n", "g">>, <<"w", "e">>,
      <<"w", "e", "b", " ", "a", "p", "p", "l", "i", "c", "a", "t", "i", "o", "n">>,
      <<"w", "e", "b", " ", "a", "p", "p", "l", "i", "c", "a", "t", "i", "o", "n", "s">>,
      <<"w", "e", "b", " ", "s", "e", "c", "u", "r", "i", "t", "y">>, <<"w", "e", "l", "l">>,
      <<"w", "h", "a", "t", "e", "v", "e", "r">>, <<"w", "h", "e", "n", "e", "v", "e", "r">>,
      <<"w", "i", "t", "h", "i", "n">>, <<"w", "o", "r", "k">>,
      <<"w", "o", "r", "k", " ", "e", "n", "v", "i", "r", "o", "n", "m", "e", "n", "t">>,
      <<"w", "o", "r", "k", "i", "n", "g">>,
      <<"w", "o", "r", "k", "i", "n", "g", " ", "m", "o", "d", "e", "l">>, <<"y", "a", "r", "n">>,
      <<"y", "e", "a", "r", "s">>, <<"y", "o", "u">>,
      <<"y", "o", "u", "c", "r", "o", "s", "s", " ", "f", "u", "n", "c", "t", "i", "o", "n", "a", "l">>,
      <<"y", "o", "u", "r">>, <<"y", "r", "s">>
    }

SPECIFIC_SINGLE_WORD_SKILLS ==
    {
      <<"a", "n", "d", "r", "o", "i", "d">>, <<"a", "n", "g", "u", "l", "a", "r">>,
      <<"a", "n", "s", "i", "b", "l", "e">>, <<"a", "w", "s">>, <<"a", "z", "u", "r", "e">>,
      <<"c", "s", "s">>, <<"d", "j", "a", "n", "g", "o">>, <<"d", "o", "c", "k", "e", "r">>,
      <<"e", "x", "p", "r", "e", "s", "s">>, <<"f", "l", "a", "s", "k">>, <<"g", "c", "p">>,
      <<"g", "i", "t">>, <<"g", "o">>, <<"h", "e", "r", "o", "k", "u">>, <<"h", "t", "m", "l">>,
      <<"j", "a", "v", "a">>, <<"j", "a", "v", "a", "s", "c", "r", "i", "p", "t">>,
      <<"j", "e", "n", "k", "i", "n", "s">>, <<"k", "o", "t", "l", "i", "n">>,
      <<"k", "u", "b", "e", "r", "n", "e", "t", "e", "s">>, <<"m", "a", "t", "l", "a", "b">>,
      <<"m", "o", "n", "g", "o", "d", "b">>, <<"m", "y", "s", "q", "l">>, <<"n", "o", "d", "e">>,
      <<"n", "o", "s", "q", "l">>, <<"o", "r", "a", "c", "l", "e">>, <<"p", "h", "p">>,
      <<"p", "o", "s", "t", "g", "r", "e", "s", "q", "l">>, <<"p", "y", "t", "h", "o", "n">>,
      <<"r">>, <<"r", "e", "a", "c", "t">>, <<"r", "e", "d", "i", "s">>, <<"r", "u", "b", "y">>,
      <<"r", "u", "s", "t">>, <<"s", "c", "a", "l", "a">>, <<"s", "p", "r", "i", "n", "g">>,
      <<"s", "q", "l">>, <<"s", "w", "i", "f", "t">>,
      <<"t", "e", "r", "r", "a", "f", "o", "r", "m">>,
      <<"t", "y", "p", "e", "s", "c", "r", "i", "p", "t">>, <<"v", "e", "r", "c", "e", "l">>,
      <<"v", "u", "e">>
    }

GARBAGE_SKILLS ==
    {
      <<"a", "b", "i", "l", "i", "t", "i", "e", "s">>, <<"a", "b", "i", "l", "i", "t", "y">>,
      <<"a", "g", "e">>, <<"a", "p", "p">>,
      <<"a", "p", "p", "l", "i", "c", "a", "t", "i", "o", "n">>,
      <<"a", "p", "p", "l", "i", "c", "a", "t", "i", "o", "n", "s">>,
      <<"a", "p", "p", "r", "o", "a", "c", "h">>,
      <<"a", "p", "p", "r", "o", "a", "c", "h", "e", "s">>, <<"a", "p", "p", "s">>,
      <<"a", "r", "c", "h", "i", "t", "e", "c", "t", "u", "r", "e">>,
      <<"a", "r", "c", "h", "i", "t", "e", "c", "t", "u", "r", "e", "s">>, <<"a", "r", "e", "a">>,
      <<"a", "r", "e", "a", "s">>, <<"a", "t", "t", "r", "i", "b", "u", "t", "e">>,
      <<"a", "t", "t", "r", "i", "b", "u", "t", "e", "s">>,
      <<"b", "a", "c", "k", "g", "r", "o", "u", "n", "d">>,
      <<"b", "a", "c", "k", "g", "r", "o", "u", "n", "d", "s">>, <<"b", "o", "o", "t">>,
      <<"b", "u", "s", "i", "n", "e", "s", "s">>,
      <<"b", "u", "s", "i", "n", "e", "s", "s", "e", "s">>,
      <<"c", "a", "p", "a", "b", "i", "l", "i", "t", "i", "e", "s">>,
      <<"c", "a", "p", "a", "b", "i", "l", "i", "t", "y">>,
      <<"c", "a", "p", "a", "c", "i", "t", "i", "e", "s">>,
      <<"c", "a", "p", "a", "c", "i", "t", "y">>,
      <<"c", "e", "r", "t", "i", "f", "i", "c", "a", "t", "e">>,
      <<"c", "e", "r", "t", "i", "f", "i", "c", "a", "t", "e", "s">>,
      <<"c", "e", "r", "t", "i", "f", "i", "c", "a", "t", "i", "o", "n">>,
      <<"c", "e", "r", "t", "i", "f", "i", "c", "a", "t", "i", "o", "n", "s">>,
      <<"c", "l", "a", "s", "s">>, <<"c", "l", "a", "s", "s", "e", "s">>,
      <<"c", "l", "o", "u", "d">>, <<"c", "o", "d", "e">>, <<"c", "o", "d", "e", "s">>,
      <<"c", "o", "l", "l", "a", "b", "o", "r", "a", "t", "i", "o", "n">>,
      <<"c", "o", "l", "o", "r">>, <<"c", "o", "m", "p", "a", "n", "i", "e", "s">>,
      <<"c", "o", "m", "p", "a", "n", "y">>, <<"c", "o", "m", "p", "e", "t", "e", "n", "c", "e">>,
      <<"c", "o", "m", "p", "e", "t", "e", "n", "c", "e", "s">>,
      <<"c", "o", "m", "p", "o", "n", "e", "n", "t">>,
      <<"c", "o", "m", "p", "o", "n", "e", "n", "t", "s">>, <<"c", "o", "n", "c", "e", "p", "t">>,
      <<"c", "o", "n", "c", "e", "p", "t", "s">>,
      <<"c", "o", "n", "f", "i", "g", "u", "r", "a", "t", "i", "o", "n">>,
      <<"c", "o", "n", "f", "i", "g", "u", "r", "a", "t", "i", "o", "n", "s">>,
      <<"c", "o", "n", "s", "t", "a", "n", "t">>, <<"c", "o", "n", "s", "t", "a", "n", "t", "s">>,
      <<"c", "o", "n", "t", "e", "n", "t">>, <<"c", "o", "n", "t", "e", "n", "t", "s">>,
      <<"c", "o", "n", "t", "r", "i", "b", "u", "t", "e">>,
      <<"c", "o", "n", "t", "r", "i", "b", "u", "t", "e", "s">>,
      <<"c", "o", "o", "p", "e", "r", "a", "t", "i", "o", "n">>, <<"c", "o", "u", "r", "s", "e">>,
      <<"c", "o", "u", "r", "s", "e", "s">>, <<"c", "y", "b", "e", "r">>,
      <<"c", "y", "b", "e", "r", " ", "s", "e", "c", "u", "r", "i", "t", "y">>,
      <<"c", "y", "b", "e", "r", "s", "e", "c", "u", "r", "i", "t", "y">>, <<"d", "a", "t", "a">>,
      <<"d", "a", "t", "a", "s">>, <<"d", "e", "g", "r", "e", "e">>,
      <<"d", "e", "g", "r", "e", "e", "s">>,
      <<"d", "e", "p", "e", "n", "d", "e", "n", "c", "i", "e", "s">>,
      <<"d", "e", "p", "e", "n", "d", "e", "n", "c", "y">>, <<"d", "e", "s", "i", "g", "n">>,
      <<"d", "e", "s", "i", "g", "n", "s">>, <<"d", "e", "v", "e", "l", "o", "p", "e", "r", "s">>,
      <<"d", "i", "g", "i", "t", "a", "l">>,
      <<"d", "i", "g", "i", "t", "a", "l", " ", "t", "r", "a", "n", "s", "f", "o", "r", "m", "a", "t", "i", "o", "n">>,
      <<"d", "i", "r", "e", "c", "t", "o", "r", "i", "e", "s">>,
      <<"d", "i", "r", "e", "c", "t", "o", "r", "y">>,
      <<"d", "i", "s", "a", "b", "i", "l", "i", "t", "y">>,
      <<"d", "i", "s", "c", "r", "i", "m", "i", "n", "a", "t", "i", "o", "n">>,
      <<"d", "i", "v", "e", "r", "s", "i", "t", "y">>, <<"d", "o", "c", "u", "m", "e", "n", "t">>,
      <<"d", "o", "c", "u", "m", "e", "n", "t", "s">>, <<"d", "o", "m", "a", "i", "n">>,
      <<"d", "o", "m", "a", "i", "n", "s">>, <<"d", "u", "t", "i", "e", "s">>,
      <<"d", "u", "t", "y">>, <<"e", "c", "m", "a", "s", "c", "r", "i", "p", "t">>,
      <<"e", "d", "u", "c", "a", "t", "i", "o", "n">>,
      <<"e", "d", "u", "c", "a", "t", "i", "o", "n", "s">>, <<"e", "e", "o">>,
      <<"e", "l", "e", "m", "e", "n", "t">>, <<"e", "l", "e", "m", "e", "n", "t", "s">>,
      <<"e", "n", "g", "i", "n", "e", "e", "r", "s">>, <<"e", "n", "t", "r", "i", "e", "s">>,
      <<"e", "n", "t", "r", "y">>, <<"e", "n", "v", "i", "r", "o", "n", "m", "e", "n", "t">>,
      <<"e", "n", "v", "i", "r", "o", "n", "m", "e", "n", "t", "s">>,
      <<"e", "q", "u", "a", "l", " ", "e", "m", "p", "l", "o", "y", "m", "e", "n", "t", " ", "o", "p", "p", "o", "r", "t", "u", "n", "i", "t", "y">>,
      <<"e", "q", "u", "i", "t", "y">>, <<"e", "x", "p", "e", "r", "i", "e", "n", "c", "e">>,
      <<"e", "x", "p", "e", "r", "i", "e", "n", "c", "e", "s">>,
      <<"e", "x", "p", "e", "r", "t", "i", "s", "e">>,
      <<"e", "x", "p", "e", "r", "t", "i", "s", "e", "s">>, <<"f", "e", "a", "t", "u", "r", "e">>,
      <<"f", "e", "a", "t", "u", "r", "e", "s">>, <<"f", "i", "e", "l", "d">>,
      <<"f", "i", "e", "l", "d", "s">>, <<"f", "i", "l", "e">>, <<"f", "i", "l", "e", "s">>,
      <<"f", "o", "l", "d", "e", "r">>, <<"f", "o", "l", "d", "e", "r", "s">>,
      <<"f", "r", "a", "m", "e", "w", "o", "r", "k">>,
      <<"f", "r", "a", "m", "e", "w", "o", "r", "k", "s">>,
      <<"f", "u", "n", "c", "t", "i", "o", "n">>, <<"f", "u", "n", "c", "t", "i", "o", "n", "s">>,
      <<"g", "e", "n", "d", "e", "r">>, <<"g", "r", "o", "u", "p">>,
      <<"g", "r", "o", "u", "p", "s">>, <<"h", "a", "r", "a", "s", "s", "m", "e", "n", "t">>,
      <<"h", "i", "s", "t", "o", "r", "i", "e", "s">>, <<"h", "i", "s", "t", "o", "r", "y">>,
      <<"h", "y", "b", "r", "i", "d", " ", "c", "l", "o", "u", "d">>,
      <<"i", "n", "c", "l", "u", "s", "i", "o", "n">>,
      <<"i", "n", "d", "u", "s", "t", "r", "i", "e", "s">>,
      <<"i", "n", "d", "u", "s", "t", "r", "y">>,
      <<"i", "n", "f", "o", "r", "m", "a", "t", "i", "o", "n">>,
      <<"i", "n", "f", "o", "r", "m", "a", "t", "i", "o", "n", "s">>,
      <<"i", "n", "t", "e", "r", "f", "a", "c", "e">>,
      <<"i", "n", "t", "e", "r", "f", "a", "c", "e", "s">>, <<"i", "t">>, <<"i", "t", "e", "m">>,
      <<"i", "t", "e", "m", "s">>, <<"j", "o", "b">>, <<"j", "o", "b", "s">>,
      <<"k", "n", "o", "w", "l", "e", "d", "g", "e">>,
      <<"k", "n", "o", "w", "l", "e", "d", "g", "e", "s">>,
      <<"l", "i", "b", "r", "a", "r", "i", "e", "s">>, <<"l", "i", "b", "r", "a", "r", "y">>,
      <<"l", "i", "n", "k">>, <<"l", "i", "n", "k", "s">>,
      <<"m", "a", "s", "t", "e", "r", "i", "e", "s">>, <<"m", "a", "s", "t", "e", "r", "y">>,
      <<"m", "e", "t", "h", "o", "d">>, <<"m", "e", "t", "h", "o", "d", "o", "l", "o", "g", "y">>,
      <<"m", "e", "t", "h", "o", "d", "s">>, <<"m", "o", "d", "u", "l", "e">>,
      <<"m", "o", "d", "u", "l", "e", "s">>,
      <<"n", "a", "t", "i", "o", "n", "a", "l", " ", "o", "r", "i", "g", "i", "n">>,
      <<"o", "b", "j", "e", "c", "t">>, <<"o", "b", "j", "e", "c", "t", "s">>,
      <<"o", "r", "g", "a", "n", "i", "z", "a", "t", "i", "o", "n">>,
      <<"o", "r", "g", "a", "n", "i", "z", "a", "t", "i", "o", "n", "s">>,
      <<"p", "a", "c", "k", "a", "g", "e">>, <<"p", "a", "c", "k", "a", "g", "e", "s">>,
      <<"p", "a", "r", "a", "m", "e", "t", "e", "r">>,
      <<"p", "a", "r", "a", "m", "e", "t", "e", "r", "s">>, <<"p", "a", "t", "h">>,
      <<"p", "a", "t", "h", "s">>, <<"p", "a", "t", "t", "e", "r", "n">>,
      <<"p", "a", "t", "t", "e", "r", "n", "s">>, <<"p", "l", "a", "t", "f", "o", "r", "m">>,
      <<"p", "l", "a", "t", "f", "o", "r", "m", "s">>, <<"p", "o", "s", "i", "t", "i", "o", "n">>,
      <<"p", "o", "s", "i", "t", "i", "o", "n", "s">>, <<"p", "r", "a", "c", "t", "i", "c", "e">>,
      <<"p", "r", "a", "c", "t", "i", "c", "e", "s">>,
      <<"p", "r", "e", "g", "n", "a", "n", "c", "y">>,
      <<"p", "r", "i", "n", "c", "i", "p", "l", "e">>,
      <<"p", "r", "i", "n", "c", "i", "p", "l", "e", "s">>,
      <<"p", "r", "i", "v", "a", "t", "e", " ", "c", "l", "o", "u", "d">>,
      <<"p", "r", "o", "c", "e", "d", "u", "r", "e">>,
      <<"p", "r", "o", "c", "e", "d", "u", "r", "e", "s">>, <<"p", "r", "o", "c", "e", "s", "s">>,
      <<"p", "r", "o", "c", "e", "s", "s", "e", "s">>, <<"p", "r", "o", "d", "u", "c", "t">>,
      <<"p", "r", "o", "d", "u", "c", "t", "s">>,
      <<"p", "r", "o", "f", "i", "c", "i", "e", "n", "c", "i", "e", "s">>,
      <<"p", "r", "o", "f", "i", "c", "i", "e", "n", "c", "y">>,
      <<"p", "r", "o", "g", "r", "a", "m">>,
      <<"p", "r", "o", "g", "r", "a", "m", "m", "e", "r", "s">>,
      <<"p", "r", "o", "g", "r", "a", "m", "s">>, <<"p", "r", "o", "j", "e", "c", "t">>,
      <<"p", "r", "o", "j", "e", "c", "t", "s">>,
      <<"p", "r", "o", "p", "e", "r", "t", "i", "e", "s">>,
      <<"p", "r", "o", "p", "e", "r", "t", "y">>, <<"p", "r", "o", "t", "o", "c", "o", "l">>,
      <<"p", "r", "o", "t", "o", "c", "o", "l", "s">>,
      <<"p", "u", "b", "l", "i", "c", " ", "c", "l", "o", "u", "d">>, <<"r", "a", "c", "e">>,
      <<"r", "e", "c", "o", "r", "d">>, <<"r", "e", "c", "o", "r", "d", "s">>,
      <<"r", "e", "f", "e", "r", "e", "n", "c", "e">>,
      <<"r", "e", "f", "e", "r", "e", "n", "c", "e", "s">>,
      <<"r", "e", "l", "i", "g", "i", "o", "n">>,
      <<"r", "e", "q", "u", "i", "r", "e", "m", "e", "n", "t">>,
      <<"r", "e", "q", "u", "i", "r", "e", "m", "e", "n", "t", "s">>,
      <<"r", "e", "s", "e", "a", "r", "c", "h">>,
      <<"r", "e", "s", "e", "a", "r", "c", "h", "e", "r", "s">>,
      <<"r", "e", "s", "p", "o", "n", "s", "i", "b", "i", "l", "i", "t", "i", "e", "s">>,
      <<"r", "e", "s", "p", "o", "n", "s", "i", "b", "i", "l", "i", "t", "y">>,
      <<"r", "o", "c", "k", "e", "t">>, <<"r", "o", "l", "e">>, <<"r", "o", "l", "e", "s">>,
      <<"s", "c", "r", "i", "p", "t">>, <<"s", "c", "r", "i", "p", "t", "s">>,
      <<"s", "e", "c", "t", "o", "r">>, <<"s", "e", "c", "t", "o", "r", "s">>,
      <<"s", "e", "r", "v", "i", "c", "e">>, <<"s", "e", "r", "v", "i", "c", "e", "s">>,
      <<"s", "e", "t", "t", "i", "n", "g">>, <<"s", "e", "t", "t", "i", "n", "g", "s">>,
      <<"s", "k", "i", "l", "l">>, <<"s", "k", "i", "l", "l", "s">>,
      <<"s", "o", "f", "t", "w", "a", "r", "e">>, <<"s", "o", "f", "t", "w", "a", "r", "e", "s">>,
      <<"s", "o", "l", "u", "t", "i", "o", "n">>, <<"s", "o", "l", "u", "t", "i", "o", "n", "s">>,
      <<"s", "p", "e", "c", "i", "f", "i", "c", "a", "t", "i", "o", "n">>,
      <<"s", "p", "e", "c", "i", "f", "i", "c", "a", "t", "i", "o", "n", "s">>,
      <<"s", "t", "a", "n", "d", "a", "r", "d">>, <<"s", "t", "a", "n", "d", "a", "r", "d", "s">>,
      <<"s", "t", "a", "r", "t", " ", "u", "p">>, <<"s", "t", "a", "r", "t", "-", "u", "p">>,
      <<"s", "t", "a", "r", "t", "u", "p">>, <<"s", "y", "s", "t", "e", "m">>,
      <<"s", "y", "s", "t", "e", "m", "s">>, <<"t", "a", "s", "k">>, <<"t", "a", "s", "k", "s">>,
      <<"t", "e", "a", "m">>, <<"t", "e", "a", "m", "s">>, <<"t", "e", "c", "h">>,
      <<"t", "e", "c", "h", "n", "o", "l", "o", "g", "i", "e", "s">>,
      <<"t", "e", "c", "h", "n", "o", "l", "o", "g", "y">>, <<"t", "i", "t", "l", "e">>,
      <<"t", "i", "t", "l", "e", "s">>, <<"t", "o", "o", "l">>, <<"t", "o", "o", "l", "s">>,
      <<"t", "r", "a", "i", "n", "i", "n", "g">>, <<"t", "r", "a", "i", "n", "i", "n", "g", "s">>,
      <<"u", "n", "d", "e", "r", "s", "t", "a", "n", "d", "i", "n", "g">>,
      <<"u", "n", "d", "e", "r", "s", "t", "a", "n", "d", "i", "n", "g", "s">>, <<"u", "r", "i">>,
      <<"u", "r", "i", "s">>, <<"u", "r", "l">>, <<"u", "r", "l", "s">>,
      <<"v", "a", "r", "i", "a", "b", "l", "e">>, <<"v", "a", "r", "i", "a", "b", "l", "e", "s">>,
      <<"v", "e", "t", "e", "r", "a", "n">>, <<"w", "e", "b">>, <<"w", "e", "b", "s">>,
      <<"w", "o", "r", "k">>, <<"w", "o", "r", "k", "s">>, <<"y", "a", "r", "n">>
    }

LOW_PRIORITY_SKILLS ==
    {
      <<"a", "d", "a", "p", "t", "a", "b", "i", "l", "i", "t", "y">>,
      <<"a", "d", "m", "i", "n", "i", "s", "t", "r", "a", "t", "i", "o", "n">>,
      <<"a", "n", "a", "l", "y", "t", "i", "c", "a", "l", " ", "t", "h", "i", "n", "k", "i", "n", "g">>,
      <<"a", "t", "t", "e", "n", "t", "i", "o", "n", " ", "t", "o", " ", "d", "e", "t", "a", "i", "l">>,
      <<"b", "u", "s", "i", "n", "e", "s", "s", " ", "a", "c", "u", "m", "e", "n">>,
      <<"c", "l", "i", "e", "n", "t", " ", "r", "e", "l", "a", "t", "i", "o", "n", "s">>,
      <<"c", "o", "l", "l", "a", "b", "o", "r", "a", "t", "i", "o", "n">>,
      <<"c", "o", "m", "m", "u", "n", "i", "c", "a", "t", "i", "o", "n">>,
      <<"c", "o", "n", "f", "l", "i", "c", "t", " ", "r", "e", "s", "o", "l", "u", "t", "i", "o", "n">>,
      <<"c", "o", "o", "r", "d", "i", "n", "a", "t", "i", "o", "n">>,
      <<"c", "r", "e", "a", "t", "i", "v", "i", "t", "y">>,
      <<"c", "r", "i", "t", "i", "c", "a", "l", " ", "t", "h", "i", "n", "k", "i", "n", "g">>,
      <<"c", "u", "s", "t", "o", "m", "e", "r", " ", "s", "e", "r", "v", "i", "c", "e">>,
      <<"d", "e", "c", "i", "s", "i", "o", "n", " ", "m", "a", "k", "i", "n", "g">>,
      <<"d", "e", "p", "e", "n", "d", "a", "b", "l", "e">>,
      <<"e", "x", "e", "c", "u", "t", "i", "o", "n">>,
      <<"f", "l", "e", "x", "i", "b", "i", "l", "i", "t", "y">>,
      <<"i", "m", "p", "l", "e", "m", "e", "n", "t", "a", "t", "i", "o", "n">>,
      <<"i", "n", "i", "t", "i", "a", "t", "i", "v", "e">>,
      <<"i", "n", "n", "o", "v", "a", "t", "i", "o", "n">>,
      <<"i", "n", "t", "e", "r", "p", "e", "r", "s", "o", "n", "a", "l", " ", "s", "k", "i", "l", "l", "s">>,
      <<"l", "e", "a", "d", "e", "r", "s", "h", "i", "p">>,
      <<"m", "a", "n", "a", "g", "e", "m", "e", "n", "t">>,
      <<"m", "u", "l", "t", "i", "t", "a", "s", "k", "i", "n", "g">>,
      <<"n", "e", "g", "o", "t", "i", "a", "t", "i", "o", "n">>,
      <<"o", "p", "e", "r", "a", "t", "i", "o", "n", "s">>,
      <<"o", "r", "g", "a", "n", "i", "z", "a", "t", "i", "o", "n">>,
      <<"p", "l", "a", "n", "n", "i", "n", "g">>,
      <<"p", "r", "e", "s", "e", "n", "t", "a", "t", "i", "o", "n", " ", "s", "k", "i", "l", "l", "s">>,
      <<"p", "r", "o", "a", "c", "t", "i", "v", "e">>,
      <<"p", "r", "o", "b", "l", "e", "m", " ", "s", "o", "l", "v", "i", "n", "g">>,
      <<"p", "r", "o", "j", "e", "c", "t", " ", "c", "o", "o", "r", "d", "i", "n", "a", "t", "i", "o", "n">>,
      <<"p", "u", "b", "l", "i", "c", " ", "s", "p", "e", "a", "k", "i", "n", "g">>,
      <<"r", "e", "l", "i", "a", "b", "l", "e">>,
      <<"s", "e", "l", "f", " ", "m", "o", "t", "i", "v", "a", "t", "i", "o", "n">>,
      <<"s", "t", "a", "k", "e", "h", "o", "l", "d", "e", "r", " ", "m", "a", "n", "a", "g", "e", "m", "e", "n", "t">>,
      <<"s", "t", "r", "a", "t", "e", "g", "i", "c", " ", "t", "h", "i", "n", "k", "i", "n", "g">>,
      <<"s", "u", "p", "p", "o", "r", "t">>, <<"t", "e", "a", "m", "w", "o", "r", "k">>,
      <<"t", "i", "m", "e", " ", "m", "a", "n", "a", "g", "e", "m", "e", "n", "t">>,
      <<"v", "e", "r", "b", "a", "l", " ", "c", "o", "m", "m", "u", "n", "i", "c", "a", "t", "i", "o", "n">>,
      <<"w", "o", "r", "k", " ", "e", "t", "h", "i", "c">>,
      <<"w", "r", "i", "t", "t", "e", "n", " ", "c", "o", "m", "m", "u", "n", "i", "c", "a", "t", "i", "o", "n">>
    }

\* SKILL_HIERARCHY: parent phrase -> the phrases it makes redundant
SKILL_HIERARCHY ==
    <<
      [parent |-> <<"s", "p", "r", "i", "n", "g", " ", "b", "o", "o", "t">>,
        children |-> <<<<"s", "p", "r", "i", "n", "g">>, <<"b", "o", "o", "t">>>>],
      [parent |-> <<"s", "p", "r", "i", "n", "g", " ", "f", "r", "a", "m", "e", "w", "o", "r", "k">>,
        children |-> <<<<"s", "p", "r", "i", "n", "g">>>>],
      [parent |-> <<"r", "e", "a", "c", "t", ".", "j", "s">>,
        children |-> <<<<"r", "e", "a", "c", "t">>>>],
      [parent |-> <<"r", "e", "a", "c", "t", " ", "n", "a", "t", "i", "v", "e">>,
        children |-> <<<<"r", "e", "a", "c", "t">>>>],
      [parent |-> <<"v", "u", "e", ".", "j", "s">>,
        children |-> <<<<"v", "u", "e">>>>],
      [parent |-> <<"a", "n", "g", "u", "l", "a", "r", ".", "j", "s">>,
        children |-> <<<<"a", "n", "g", "u", "l", "a", "r">>>>],
      [parent |-> <<"n", "o", "d", "e", ".", "j", "s">>,
        children |-> <<<<"n", "o", "d", "e">>, <<"n", "o", "d", "e", "j", "s">>>>],
      [parent |-> <<"n", "e", "x", "t", ".", "j", "s">>,
        children |-> <<<<"n", "e", "x", "t">>>>],
      [parent |-> <<"e", "x", "p", "r", "e", "s", "s", ".", "j", "s">>,
        children |-> <<<<"e", "x", "p", "r", "e", "s", "s">>>>],
      [parent |-> <<"r", "e", "l", "a", "t", "i", "o", "n", "a", "l", " ", "d", "a", "t", "a", "b", "a", "s", "e", "s">>,
        children |-> <<<<"d", "a", "t", "a", "b", "a", "s", "e", "s">>, <<"d", "a", "t", "a", "b", "a", "s", "e">>>>],
      [parent |-> <<"n", "o", "s", "q", "l", " ", "d", "a", "t", "a", "b", "a", "s", "e", "s">>,
        children |-> <<<<"d", "a", "t", "a", "b", "a", "s", "e", "s">>, <<"d", "a", "t", "a", "b", "a", "s", "e">>>>],
      [parent |-> <<"s", "q", "l", " ", "d", "a", "t", "a", "b", "a", "s", "e", "s">>,
        children |-> <<<<"d", "a", "t", "a", "b", "a", "s", "e", "s">>, <<"d", "a", "t", "a", "b", "a", "s", "e">>>>],
      [parent |-> <<"m", "y", "s", "q", "l", " ", "d", "a", "t", "a", "b", "a", "s", "e">>,
        children |-> <<<<"m", "y", "s", "q", "l">>, <<"d", "a", "t", "a", "b", "a", "s", "e">>>>],
      [parent |-> <<"p", "o", "s", "t", "g", "r", "e", "s", "q", "l", " ", "d", "a", "t", "a", "b", "a", "s", "e">>,
        children |-> <<<<"p", "o", "s", "t", "g", "r", "e", "s", "q", "l">>, <<"p", "o", "s", "t", "g", "r", "e", "s">>, <<"d", "a", "t", "a", "b", "a", "s", "e">>>>],
      [parent |-> <<"m", "o", "n", "g", "o", "d", "b", " ", "d", "a", "t", "a", "b", "a", "s", "e">>,
        children |-> <<<<"m", "o", "n", "g", "o", "d", "b">>, <<"m", "o", "n", "g", "o">>, <<"d", "a", "t", "a", "b", "a", "s", "e">>>>],
      [parent |-> <<"a", "w", "s", " ", "s", "e", "r", "v", "i", "c", "e", "s">>,
        children |-> <<<<"a", "w", "s">>, <<"s", "e", "r", "v", "i", "c", "e", "s">>>>],
      [parent |-> <<"a", "z", "u", "r", "e", " ", "s", "e", "r", "v", "i", "c", "e", "s">>,
        children |-> <<<<"a", "z", "u", "r", "e">>, <<"s", "e", "r", "v", "i", "c", "e", "s">>>>],
      [parent |-> <<"g", "c", "p", " ", "s", "e", "r", "v", "i", "c", "e", "s">>,
        children |-> <<<<"g", "c", "p">>, <<"g", "o", "o", "g", "l", "e", " ", "c", "l", "o", "u", "d">>, <<"s", "e", "r", "v", "i", "c", "e", "s">>>>],
      [parent |-> <<"r", "e", "s", "t", " ", "a", "p", "i">>,
        children |-> <<<<"r", "e", "s", "t">>, <<"a", "p", "i">>, <<"a", "p", "i", "s">>>>],
      [parent |-> <<"g", "r", "a", "p", "h", "q", "l", " ", "a", "p", "i">>,
        children |-> <<<<"g", "r", "a", "p", "h", "q", "l">>, <<"a", "p", "i">>, <<"a", "p", "i", "s">>>>],
      [parent |-> <<"r", "e", "s", "t", "f", "u", "l", " ", "a", "p", "i">>,
        children |-> <<<<"r", "e", "s", "t">>, <<"r", "e", "s", "t", "f", "u", "l">>, <<"a", "p", "i">>, <<"a", "p", "i", "s">>>>],
      [parent |-> <<"w", "e", "b", " ", "a", "p", "i">>,
        children |-> <<<<"w", "e", "b">>, <<"a", "p", "i">>, <<"a", "p", "i", "s">>>>],
      [parent |-> <<"d", "o", "c", "k", "e", "r", " ", "c", "o", "n", "t", "a", "i", "n", "e", "r", "s">>,
        children |-> <<<<"d", "o", "c", "k", "e", "r">>, <<"c", "o", "n", "t", "a", "i", "n", "e", "r", "s">>, <<"c", "o", "n", "t", "a", "i", "n", "e", "r">>>>],
      [parent |-> <<"k", "u", "b", "e", "r", "n", "e", "t", "e", "s", " ", "c", "l", "u", "s", "t", "e", "r">>,
        children |-> <<<<"k", "u", "b", "e", "r", "n", "e", "t", "e", "s">>, <<"k", "8", "s">>, <<"c", "l", "u", "s", "t", "e", "r">>>>],
      [parent |-> <<"g", "i", "t", " ", "v", "e", "r", "s", "i", "o", "n", " ", "c", "o", "n", "t", "r", "o", "l">>,
        children |-> <<<<"g", "i", "t">>, <<"v", "e", "r", "s", "i", "o", "n", " ", "c", "o", "n", "t", "r", "o", "l">>>>],
      [parent |-> <<"c", "i", "/", "c", "d", " ", "p", "i", "p", "e", "l", "i", "n", "e">>,
        children |-> <<<<"c", "i", "/", "c", "d">>, <<"c", "i", "c", "d">>, <<"p", "i", "p", "e", "l", "i", "n", "e">>>>],
      [parent |-> <<"j", "a", "v", "a", "s", "c", "r", "i", "p", "t", " ", "p", "r", "o", "g", "r", "a", "m", "m", "i", "n", "g">>,
        children |-> <<<<"j", "a", "v", "a", "s", "c", "r", "i", "p", "t">>, <<"j", "s">>, <<"p", "r", "o", "g", "r", "a", "m", "m", "i", "n", "g">>>>],
      [parent |-> <<"p", "y", "t", "h", "o", "n", " ", "p", "r", "o", "g", "r", "a", "m", "m", "i", "n", "g">>,
        children |-> <<<<"p", "y", "t", "h", "o", "n">>, <<"p", "y">>, <<"p", "r", "o", "g", "r", "a", "m", "m", "i", "n", "g">>>>],
      [parent |-> <<"j", "a", "v", "a", " ", "p", "r", "o", "g", "r", "a", "m", "m", "i", "n", "g">>,
        children |-> <<<<"j", "a", "v", "a">>, <<"p", "r", "o", "g", "r", "a", "m", "m", "i", "n", "g">>>>]
    >>

\* CANONICAL_MAP: the (key, canonical) pairs in the order of the dict
CANONICAL_MAP ==
    <<
      <<<<"n", "o", "d", "e", ".", "j", "s">>, <<"n", "o", "d", "e">>>>,
      <<<<"n", "o", "d", "e", "j", "s">>, <<"n", "o", "d", "e">>>>,
      <<<<"n", "o", "d", "e", " ", "j", "s">>, <<"n", "o", "d", "e">>>>,
      <<<<"j", "a", "v", "a", "s", "c", "r", "i", "p", "t">>, <<"j", "a", "v", "a", "s", "c", "r", "i", "p", "t">>>>,
      <<<<"j", "s">>, <<"j", "a", "v", "a", "s", "c", "r", "i", "p", "t">>>>,
      <<<<"e", "c", "m", "a", "s", "c", "r", "i", "p", "t">>, <<"j", "a", "v", "a", "s", "c", "r", "i", "p", "t">>>>,
      <<<<"t", "y", "p", "e", "s", "c", "r", "i", "p", "t">>, <<"t", "y", "p", "e", "s", "c", "r", "i", "p", "t">>>>,
      <<<<"t", "s">>, <<"t", "y", "p", "e", "s", "c", "r", "i", "p", "t">>>>,
      <<<<"p", "y", "t", "h", "o", "n">>, <<"p", "y", "t", "h", "o", "n">>>>,
      <<<<"p", "y">>, <<"p", "y", "t", "h", "o", "n">>>>,
      <<<<"p", "y", "t", "h", "o", "n", "3">>, <<"p", "y", "t", "h", "o", "n">>>>,
      <<<<"p", "y", "t", "h", "o", "n", " ", "3">>, <<"p", "y", "t", "h", "o", "n">>>>,
      <<<<"j", "a", "v", "a">>, <<"j", "a", "v", "a">>>>,
      <<<<"j", "a", "v", "a", " ", "s", "e">>, <<"j", "a", "v", "a">>>>,
      <<<<"j", "a", "v", "a", " ", "e", "e">>, <<"j", "a", "v", "a">>>>,
      <<<<"c", "#">>, <<"c", "s", "h", "a", "r", "p">>>>,
      <<<<"c", " ", "s", "h", "a", "r", "p">>, <<"c", "s", "h", "a", "r", "p">>>>,
      <<<<"c", "s", "h", "a", "r", "p">>, <<"c", "s", "h", "a", "r", "p">>>>,
      <<<<"c", "+", "+">>, <<"c", "p", "p">>>>,
      <<<<"c", " ", "p", "l", "u", "s", " ", "p", "l", "u", "s">>, <<"c", "p", "p">>>>,
      <<<<"c", "p", "p">>, <<"c", "p", "p">>>>,
      <<<<".", "n", "e", "t">>, <<"d", "o", "t", "n", "e", "t">>>>,
      <<<<"d", "o", "t", "n", "e", "t">>, <<"d", "o", "t", "n", "e", "t">>>>,
      <<<<".", "n", "e", "t", " ", "c", "o", "r", "e">>, <<"d", "o", "t", "n", "e", "t">>>>,
      <<<<"a", "s", "p", ".", "n", "e", "t">>, <<"a", "s", "p", "n", "e", "t">>>>,
      <<<<"a", "s", "p", "n", "e", "t">>, <<"a", "s", "p", "n", "e", "t">>>>,
      <<<<"r", "e", "a", "c", "t">>, <<"r", "e", "a", "c", "t">>>>,
      <<<<"r", "e", "a", "c", "t", ".", "j", "s">>, <<"r", "e", "a", "c", "t">>>>,
      <<<<"r", "e", "a", "c", "t", "j", "s">>, <<"r", "e", "a", "c", "t">>>>,
      <<<<"v", "u", "e">>, <<"v", "u", "e">>>>,
      <<<<"v", "u", "e", ".", "j", "s">>, <<"v", "u", "e">>>>,
      <<<<"v", "u", "e", "j", "s">>, <<"v", "u", "e">>>>,
      <<<<"a", "n", "g", "u", "l", "a", "r">>, <<"a", "n", "g", "u", "l", "a", "r">>>>,
      <<<<"a", "n", "g", "u", "l", "a", "r", "j", "s">>, <<"a", "n", "g", "u", "l", "a", "r">>>>,
      <<<<"a", "n", "g", "u", "l", "a", "r", ".", "j", "s">>, <<"a", "n", "g", "u", "l", "a", "r">>>>,
      <<<<"s", "q", "l">>, <<"s", "q", "l">>>>,
      <<<<"s", "t", "r", "u", "c", "t", "u", "r", "e", "d", " ", "q", "u", "e", "r", "y", " ", "l", "a", "n", "g", "u", "a", "g", "e">>, <<"s", "q", "l">>>>,
      <<<<"a", "w", "s">>, <<"a", "w", "s">>>>,
      <<<<"a", "m", "a", "z", "o", "n", " ", "w", "e", "b", " ", "s", "e", "r", "v", "i", "c", "e", "s">>, <<"a", "w", "s">>>>,
      <<<<"d", "o", "c", "k", "e", "r">>, <<"d", "o", "c", "k", "e", "r">>>>,
      <<<<"d", "o", "c", "k", "e", "r", " ", "c", "o", "n", "t", "a", "i", "n", "e", "r">>, <<"d", "o", "c", "k", "e", "r">>>>,
      <<<<"k", "u", "b", "e", "r", "n", "e", "t", "e", "s">>, <<"k", "u", "b", "e", "r", "n", "e", "t", "e", "s">>>>,
      <<<<"k", "8", "s">>, <<"k", "u", "b", "e", "r", "n", "e", "t", "e", "s">>>>,
      <<<<"k", "u", "b", "e">>, <<"k", "u", "b", "e", "r", "n", "e", "t", "e", "s">>>>,
      <<<<"g", "i", "t">>, <<"g", "i", "t">>>>,
      <<<<"g", "i", "t", " ", "v", "e", "r", "s", "i", "o", "n", " ", "c", "o", "n", "t", "r", "o", "l">>, <<"g", "i", "t">>>>,
      <<<<"r", "e", "s", "t">>, <<"r", "e", "s", "t", " ", "a", "p", "i">>>>,
      <<<<"r", "e", "s", "t", " ", "a", "p", "i">>, <<"r", "e", "s", "t", " ", "a", "p", "i">>>>,
      <<<<"r", "e", "s", "t", "f", "u", "l">>, <<"r", "e", "s", "t", " ", "a", "p", "i">>>>,
      <<<<"r", "e", "s", "t", "f", "u", "l", " ", "a", "p", "i">>, <<"r", "e", "s", "t", " ", "a", "p", "i">>>>,
      <<<<"g", "r", "a", "p", "h", "q", "l">>, <<"g", "r", "a", "p", "h", "q", "l">>>>,
      <<<<"g", "r", "a", "p", "h", " ", "q", "l">>, <<"g", "r", "a", "p", "h", "q", "l">>>>,
      <<<<"h", "t", "m", "l">>, <<"h", "t", "m", "l">>>>,
      <<<<"h", "t", "m", "l", "5">>, <<"h", "t", "m", "l">>>>,
      <<<<"c", "s", "s">>, <<"c", "s", "s">>>>,
      <<<<"c", "s", "s", "3">>, <<"c", "s", "s">>>>,
      <<<<"m", "a", "c", "h", "i", "n", "e", " ", "l", "e", "a", "r", "n", "i", "n", "g">>, <<"m", "a", "c", "h", "i", "n", "e", " ", "l", "e", "a", "r", "n", "i", "n", "g">>>>,
      <<<<"m", "l">>, <<"m", "a", "c", "h", "i", "n", "e", " ", "l", "e", "a", "r", "n", "i", "n", "g">>>>,
      <<<<"a", "r", "t", "i", "f", "i", "c", "i", "a", "l", " ", "i", "n", "t", "e", "l", "l", "i", "g", "e", "n", "c", "e">>, <<"a", "r", "t", "i", "f", "i", "c", "i", "a", "l", " ", "i", "n", "t", "e", "l", "l", "i", "g", "e", "n", "c", "e">>>>,
      <<<<"a", "i">>, <<"a", "r", "t", "i", "f", "i", "c", "i", "a", "l", " ", "i", "n", "t", "e", "l", "l", "i", "g", "e", "n", "c", "e">>>>,
      <<<<"d", "a", "t", "a", " ", "s", "c", "i", "e", "n", "c", "e">>, <<"d", "a", "t", "a", " ", "s", "c", "i", "e", "n", "c", "e">>>>,
      <<<<"d", "a", "t", "a", " ", "a", "n", "a", "l", "y", "t", "i", "c", "s">>, <<"d", "a", "t", "a", " ", "a", "n", "a", "l", "y", "t", "i", "c", "s">>>>,
      <<<<"d", "a", "t", "a", " ", "a", "n", "a", "l", "y", "s", "i", "s">>, <<"d", "a", "t", "a", " ", "a", "n", "a", "l", "y", "s", "i", "s">>>>
    >>

\* get_skill_weight: core_languages
core_languages ==
    {
      <<"c", "#">>, <<"c", "+", "+">>, <<"c", "p", "p">>, <<"c", "s", "h", "a", "r", "p">>,
      <<"c", "s", "s">>, <<"g", "o">>, <<"g", "o", "l", "a", "n", "g">>, <<"h", "t", "m", "l">>,
      <<"j", "a", "v", "a">>, <<"j", "a", "v", "a", "s", "c", "r", "i", "p", "t">>,
      <<"k", "o", "t", "l", "i", "n">>, <<"m", "a", "t", "l", "a", "b">>, <<"p", "h", "p">>,
      <<"p", "y", "t", "h", "o", "n">>, <<"r">>, <<"r", "u", "b", "y">>, <<"r", "u", "s", "t">>,
      <<"s", "c", "a", "l", "a">>, <<"s", "q", "l">>, <<"s", "w", "i", "f", "t">>,
      <<"t", "y", "p", "e", "s", "c", "r", "i", "p", "t">>
    }

\* get_skill_weight: major_frameworks
major_frameworks ==
    {
      <<".", "n", "e", "t">>, <<"a", "n", "g", "u", "l", "a", "r">>,
      <<"a", "s", "p", ".", "n", "e", "t">>, <<"c", "y", "p", "r", "e", "s", "s">>,
      <<"d", "j", "a", "n", "g", "o">>, <<"d", "o", "t", "n", "e", "t">>,
      <<"e", "x", "p", "r", "e", "s", "s">>, <<"f", "l", "a", "s", "k">>,
      <<"h", "i", "b", "e", "r", "n", "a", "t", "e">>, <<"j", "e", "s", "t">>, <<"j", "p", "a">>,
      <<"j", "u", "n", "i", "t">>, <<"k", "e", "r", "a", "s">>,
      <<"l", "a", "r", "a", "v", "e", "l">>, <<"m", "o", "c", "h", "a">>,
      <<"n", "e", "x", "t", ".", "j", "s">>, <<"n", "o", "d", "e">>,
      <<"n", "o", "d", "e", ".", "j", "s">>, <<"n", "u", "m", "p", "y">>, <<"n", "u", "x", "t">>,
      <<"p", "a", "n", "d", "a", "s">>, <<"p", "y", "t", "o", "r", "c", "h">>,
      <<"r", "a", "i", "l", "s">>, <<"r", "e", "a", "c", "t">>,
      <<"s", "c", "i", "k", "i", "t", "-", "l", "e", "a", "r", "n">>,
      <<"s", "p", "r", "i", "n", "g">>, <<"s", "p", "r", "i", "n", "g", " ", "b", "o", "o", "t">>,
      <<"s", "v", "e", "l", "t", "e">>, <<"s", "y", "m", "f", "o", "n", "y">>,
      <<"t", "e", "n", "s", "o", "r", "f", "l", "o", "w">>, <<"v", "u", "e">>
    }

\* get_skill_weight: tools_platforms
tools_platforms ==
    {
      <<"a", "n", "s", "i", "b", "l", "e">>, <<"a", "w", "s">>, <<"a", "z", "u", "r", "e">>,
      <<"c", "o", "n", "f", "l", "u", "e", "n", "c", "e">>, <<"d", "o", "c", "k", "e", "r">>,
      <<"e", "l", "a", "s", "t", "i", "c", "s", "e", "a", "r", "c", "h">>, <<"g", "c", "p">>,
      <<"g", "i", "t">>, <<"g", "i", "t", "h", "u", "b">>, <<"g", "i", "t", "l", "a", "b">>,
      <<"g", "o", "o", "g", "l", "e", " ", "c", "l", "o", "u", "d">>,
      <<"h", "e", "r", "o", "k", "u">>, <<"j", "e", "n", "k", "i", "n", "s">>,
      <<"j", "i", "r", "a">>, <<"k", "8", "s">>,
      <<"k", "u", "b", "e", "r", "n", "e", "t", "e", "s">>, <<"m", "o", "n", "g", "o", "d", "b">>,
      <<"m", "y", "s", "q", "l">>, <<"p", "o", "s", "t", "g", "r", "e", "s", "q", "l">>,
      <<"r", "e", "d", "i", "s">>, <<"s", "l", "a", "c", "k">>,
      <<"t", "e", "r", "r", "a", "f", "o", "r", "m">>, <<"v", "e", "r", "c", "e", "l">>
    }

\* is_valid_skill_type: generic_patterns
generic_patterns ==
    {
      <<"a", "r", "c", "h", "i", "t", "e", "c", "t", "u", "r", "e">>,
      <<"c", "o", "m", "p", "o", "n", "e", "n", "t">>,
      <<"c", "o", "m", "p", "o", "n", "e", "n", "t", "s">>,
      <<"d", "e", "v", "e", "l", "o", "p", "m", "e", "n", "t">>,
      <<"i", "n", "f", "r", "a", "s", "t", "r", "u", "c", "t", "u", "r", "e">>,
      <<"l", "i", "b", "r", "a", "r", "i", "e", "s">>, <<"l", "i", "b", "r", "a", "r", "y">>,
      <<"m", "a", "n", "a", "g", "e", "m", "e", "n", "t">>,
      <<"s", "e", "c", "u", "r", "i", "t", "y">>, <<"t", "e", "s", "t", "i", "n", "g">>
    }

\* is_specific_enough: common_words
common_words ==
    {
      <<"a", "b", "l", "e">>, <<"a", "b", "o", "u", "t">>, <<"a", "g", "e">>, <<"a", "i">>,
      <<"a", "l", "l">>, <<"a", "n", "a", "l", "y", "z", "e">>, <<"a", "p", "a", "r", "t">>,
      <<"a", "p", "p">>, <<"a", "p", "p", "l", "y">>, <<"a", "r", "e">>,
      <<"a", "r", "o", "u", "n", "d">>, <<"a", "s">>, <<"a", "t">>, <<"b", "a", "c", "k">>,
      <<"b", "e">>, <<"b", "e", "f", "o", "r", "e">>, <<"b", "e", "t", "w", "e", "e", "n">>,
      <<"b", "i", "g">>, <<"b", "l", "o", "g", "g", "i", "n", "g">>, <<"b", "u", "i", "l", "d">>,
      <<"b", "u", "i", "l", "d", "i", "n", "g">>, <<"b", "u", "i", "l", "t">>,
      <<"b", "u", "s", "i", "n", "e", "s", "s">>, <<"b", "y">>,
      <<"c", "a", "c", "h", "i", "n", "g">>, <<"c", "a", "r", "e", "e", "r">>,
      <<"c", "h", "a", "l", "l", "e", "n", "g", "e">>, <<"c", "h", "a", "o", "t", "i", "c">>,
      <<"c", "l", "i", "c", "k">>, <<"c", "l", "i", "e", "n", "t">>, <<"c", "l", "o", "u", "d">>,
      <<"c", "o", "l", "l", "a", "b", "o", "r", "a", "t", "e">>, <<"c", "o", "l", "o", "r">>,
      <<"c", "o", "m", "m", "u", "n", "i", "t", "y">>,
      <<"c", "o", "m", "p", "a", "n", "i", "e", "s">>, <<"c", "o", "m", "p", "l", "e", "t", "e">>,
      <<"c", "o", "n", "s", "t", "r", "a", "i", "n", "t", "s">>,
      <<"c", "o", "n", "s", "u", "m", "e", "r">>,
      <<"c", "o", "n", "t", "a", "i", "n", "e", "r", "s">>,
      <<"c", "o", "n", "t", "r", "i", "b", "u", "t", "i", "n", "g">>,
      <<"c", "o", "o", "p", "e", "r", "a", "t", "i", "o", "n">>,
      <<"c", "o", "r", "r", "e", "c", "t">>, <<"c", "y", "b", "e", "r">>,
      <<"d", "e", "c", "i", "s", "i", "o", "n", "s">>, <<"d", "e", "p", "l", "o", "y">>,
      <<"d", "e", "s", "i", "g", "n">>, <<"d", "e", "s", "i", "g", "n", "i", "n", "g">>,
      <<"d", "e", "t", "a", "i", "l", "s">>, <<"d", "e", "v", "e", "l", "o", "p">>,
      <<"d", "e", "v", "e", "l", "o", "p", "i", "n", "g">>, <<"d", "i", "g", "i", "t", "a", "l">>,
      <<"d", "i", "s", "a", "b", "i", "l", "i", "t", "y">>,
      <<"d", "i", "s", "c", "r", "i", "m", "i", "n", "a", "t", "i", "o", "n">>,
      <<"d", "i", "s", "t", "r", "i", "b", "u", "t", "e", "d">>, <<"d", "i", "v", "e">>,
      <<"d", "i", "v", "e", "r", "s", "i", "t", "y">>, <<"d", "o">>, <<"d", "o", "n", "'", "t">>,
      <<"e", "a", "r", "l", "y">>, <<"e", "a", "s", "y">>,
      <<"e", "c", "m", "a", "s", "c", "r", "i", "p", "t">>, <<"e", "e", "o">>, <<"e", "n", "d">>,
      <<"e", "n", "g", "i", "n", "e", "e", "r", "i", "n", "g">>, <<"e", "n", "j", "o", "y">>,
      <<"e", "n", "s", "u", "r", "i", "n", "g">>,
      <<"e", "n", "v", "i", "r", "o", "n", "m", "e", "n", "t">>,
      <<"e", "n", "v", "i", "r", "o", "n", "m", "e", "n", "t", "s">>,
      <<"e", "q", "u", "i", "t", "y">>, <<"f", "a", "s", "t">>, <<"f", "a", "s", "t", "e", "r">>,
      <<"f", "e", "a", "t", "u", "r", "e", "s">>, <<"f", "i", "n", "d">>,
      <<"f", "i", "n", "i", "s", "h">>, <<"f", "i", "n", "t", "e", "c", "h">>, <<"f", "i", "t">>,
      <<"f", "o", "r">>, <<"f", "o", "r", "m">>, <<"f", "r", "o", "m">>,
      <<"g", "e", "n", "d", "e", "r">>, <<"g", "e", "t">>, <<"g", "e", "t", "t", "i", "n", "g">>,
      <<"g", "i", "v", "e">>, <<"g", "o">>, <<"g", "o", "a", "l">>, <<"g", "r", "e", "a", "t">>,
      <<"h", "a", "n", "d", "l", "e">>, <<"h", "a", "r", "a", "s", "s", "m", "e", "n", "t">>,
      <<"h", "e", "l", "p">>, <<"h", "e", "s", "i", "t", "a", "t", "e">>,
      <<"h", "i", "r", "e", "d">>, <<"h", "i", "r", "i", "n", "g">>, <<"i", "f">>, <<"i", "n">>,
      <<"i", "n", "c", "i", "d", "e", "n", "t", "s">>,
      <<"i", "n", "c", "l", "u", "s", "i", "o", "n">>, <<"i", "n", "c", "r", "e", "a", "s", "e">>,
      <<"i", "n", "d", "u", "s", "t", "r", "y">>, <<"i", "n", "t", "e", "r", "v", "i", "e", "w">>,
      <<"i", "n", "v", "o", "l", "v", "e", "d">>, <<"i", "n", "v", "o", "l", "v", "e", "s">>,
      <<"i", "s">>, <<"i", "s", "s", "u", "e", "s">>, <<"i", "t">>,
      <<"j", "o", "i", "n", "i", "n", "g">>, <<"j", "u", "s", "t">>, <<"l", "a", "r", "g", "e">>,
      <<"l", "e", "v", "e", "l">>, <<"l", "e", "v", "e", "r", "a", "g", "e">>,
      <<"l", "o", "g", "i", "n">>, <<"l", "o", "v", "e">>, <<"m", "a", "k", "e">>,
      <<"m", "a", "n", "y">>, <<"m", "e">>, <<"m", "e", "e", "t">>,
      <<"m", "e", "n", "t", "o", "r", "i", "n", "g">>, <<"m", "o", "r", "e">>, <<"m", "y">>,
      <<"n", "e", "e", "d">>, <<"n", "e", "e", "d", "s">>, <<"n", "e", "w">>,
      <<"n", "e", "x", "t">>, <<"n", "o">>, <<"n", "o", "t", "e">>, <<"o", "f">>,
      <<"o", "f", "t", "e", "n">>, <<"o", "n">>,
      <<"o", "p", "p", "o", "r", "t", "u", "n", "i", "t", "i", "e", "s">>,
      <<"o", "p", "p", "o", "r", "t", "u", "n", "i", "t", "y">>, <<"o", "r">>, <<"o", "u", "r">>,
      <<"o", "u", "t", "a", "g", "e", "s">>, <<"o", "w", "n">>, <<"p", "a", "r", "t">>,
      <<"p", "a", "y", "m", "e", "n", "t", "s">>, <<"p", "l", "a", "c", "e", "m", "e", "n", "t">>,
      <<"p", "l", "a", "t", "f", "o", "r", "m">>, <<"p", "l", "u", "s">>,
      <<"p", "o", "r", "t", "a", "l">>, <<"p", "r", "e", "g", "n", "a", "n", "c", "y">>,
      <<"p", "r", "e", "p", "a", "r", "e">>, <<"p", "r", "o", "c", "e", "s", "s">>,
      <<"p", "r", "o", "d", "u", "c", "t">>, <<"p", "r", "o", "d", "u", "c", "t", "s">>,
      <<"p", "r", "o", "g", "r", "e", "s", "s">>, <<"q", "u", "a", "l", "i", "t", "y">>,
      <<"r", "a", "c", "e">>, <<"r", "e", "a", "d", "y">>, <<"r", "e", "a", "l">>,
      <<"r", "e", "a", "l", "t", "i", "m", "e">>, <<"r", "e", "g", "i", "s", "t", "e", "r">>,
      <<"r", "e", "l", "e", "v", "a", "n", "t">>, <<"r", "e", "l", "i", "a", "b", "l", "e">>,
      <<"r", "e", "l", "i", "g", "i", "o", "n">>, <<"r", "e", "p", "o", "r", "t", "s">>,
      <<"r", "e", "q", "u", "i", "r", "e", "d">>, <<"r", "e", "s", "e", "a", "r", "c", "h">>,
      <<"r", "e", "s", "u", "m", "e">>, <<"r", "o", "c", "k", "e", "t">>, <<"r", "o", "l", "e">>,
      <<"r", "o", "o", "t">>, <<"s", "a", "l", "a", "r", "y">>, <<"s", "c", "a", "l", "e">>,
      <<"s", "c", "r", "a", "t", "c", "h">>, <<"s", "c", "r", "e", "e", "n", "i", "n", "g">>,
      <<"s", "e", "r", "v", "i", "c", "e">>, <<"s", "e", "r", "v", "i", "c", "e", "s">>,
      <<"s", "i", "m", "p", "l", "e">>, <<"s", "o">>, <<"s", "o", "l", "u", "t", "i", "o", "n">>,
      <<"s", "o", "l", "v", "i", "n", "g">>, <<"s", "p", "e", "e", "d">>,
      <<"s", "t", "a", "g", "e">>, <<"s", "t", "a", "r", "t">>, <<"s", "t", "e", "p">>,
      <<"s", "y", "s", "t", "e", "m", "s">>, <<"t", "a", "k", "e">>,
      <<"t", "a", "l", "e", "n", "t">>, <<"t", "a", "l", "e", "n", "t", "s">>,
      <<"t", "e", "a", "m">>, <<"t", "e", "a", "m", "s">>, <<"t", "h", "a", "n">>,
      <<"t", "h", "e", "i", "r">>, <<"t", "h", "e", "r", "e">>, <<"t", "h", "i", "s">>,
      <<"t", "h", "r", "o", "u", "g", "h">>, <<"t", "i", "m", "e">>, <<"t", "o">>,
      <<"t", "o", "d", "a", "y">>, <<"t", "r", "a", "d", "e", "o", "f", "f", "s">>,
      <<"u", "n", "d", "e", "r", "s", "t", "a", "n", "d">>, <<"u", "p">>,
      <<"u", "p", "d", "a", "t", "e", "d">>, <<"u", "p", "l", "o", "a", "d">>,
      <<"v", "e", "t", "e", "r", "a", "n">>, <<"w", "a", "i", "t", "i", "n", "g">>, <<"w", "e">>,
      <<"w", "e", "l", "l">>, <<"w", "h", "a", "t", "e", "v", "e", "r">>,
      <<"w", "h", "e", "n", "e", "v", "e", "r">>, <<"w", "i", "t", "h", "i", "n">>,
      <<"w", "o", "r", "k", "i", "n", "g">>, <<"y", "a", "r", "n">>, <<"y", "e", "a", "r", "s">>,
      <<"y", "o", "u">>, <<"y", "o", "u", "r">>
    }

\* is_specific_enough: generic_modifiers
generic_modifiers ==
    {
      <<"a", "p", "i">>, <<"a", "p", "i", "s">>,
      <<"a", "p", "p", "l", "i", "c", "a", "t", "i", "o", "n">>,
      <<"a", "p", "p", "l", "i", "c", "a", "t", "i", "o", "n", "s">>,
      <<"a", "r", "c", "h", "i", "t", "e", "c", "t", "u", "r", "e">>,
      <<"a", "r", "c", "h", "i", "t", "e", "c", "t", "u", "r", "e", "s">>,
      <<"c", "o", "m", "p", "o", "n", "e", "n", "t">>,
      <<"c", "o", "m", "p", "o", "n", "e", "n", "t", "s">>,
      <<"d", "e", "v", "e", "l", "o", "p", "m", "e", "n", "t">>, <<"d", "o", "m">>,
      <<"e", "x", "p", "e", "r", "i", "e", "n", "c", "e">>,
      <<"f", "e", "e", "d", "b", "a", "c", "k">>,
      <<"i", "n", "f", "r", "a", "s", "t", "r", "u", "c", "t", "u", "r", "e">>,
      <<"i", "n", "f", "r", "a", "s", "t", "r", "u", "c", "t", "u", "r", "e", "s">>,
      <<"l", "i", "b", "r", "a", "r", "i", "e", "s">>, <<"l", "i", "b", "r", "a", "r", "y">>,
      <<"m", "a", "n", "a", "g", "e", "m", "e", "n", "t">>, <<"m", "o", "d", "e", "l">>,
      <<"p", "l", "a", "t", "f", "o", "r", "m">>, <<"p", "l", "a", "t", "f", "o", "r", "m", "s">>,
      <<"s", "e", "c", "u", "r", "i", "t", "y">>, <<"s", "e", "r", "v", "i", "c", "e">>,
      <<"s", "e", "r", "v", "i", "c", "e", "s">>, <<"s", "y", "s", "t", "e", "m">>,
      <<"s", "y", "s", "t", "e", "m", "s">>, <<"t", "e", "s", "t", "i", "n", "g">>
    }

\* is_specific_enough: abstract_patterns
abstract_patterns ==
    {
      <<"b", "a", "c", "k", "-", "e", "n", "d">>, <<"b", "a", "c", "k", "e", "n", "d">>,
      <<"c", "l", "o", "u", "d">>,
      <<"c", "l", "o", "u", "d", " ", "i", "n", "f", "r", "a", "s", "t", "r", "u", "c", "t", "u", "r", "e">>,
      <<"c", "o", "l", "o", "r">>,
      <<"c", "o", "m", "p", "o", "n", "e", "n", "t", " ", "l", "i", "b", "r", "a", "r", "i", "e", "s">>,
      <<"c", "o", "m", "p", "o", "n", "e", "n", "t", " ", "l", "i", "b", "r", "a", "r", "y">>,
      <<"c", "o", "o", "p", "e", "r", "a", "t", "i", "o", "n">>, <<"c", "y", "b", "e", "r">>,
      <<"c", "y", "b", "e", "r", " ", "s", "e", "c", "u", "r", "i", "t", "y">>,
      <<"c", "y", "b", "e", "r", "s", "e", "c", "u", "r", "i", "t", "y">>,
      <<"d", "e", "v", "e", "l", "o", "p", "e", "r", "s">>, <<"d", "i", "g", "i", "t", "a", "l">>,
      <<"d", "i", "s", "t", "r", "i", "b", "u", "t", "e", "d", " ", "s", "y", "s", "t", "e", "m", "s">>,
      <<"e", "c", "m", "a", "s", "c", "r", "i", "p", "t">>, <<"e", "e", "o">>,
      <<"e", "n", "g", "i", "n", "e", "e", "r", "i", "n", "g">>,
      <<"e", "n", "g", "i", "n", "e", "e", "r", "s">>,
      <<"e", "q", "u", "a", "l", " ", "e", "m", "p", "l", "o", "y", "m", "e", "n", "t", " ", "o", "p", "p", "o", "r", "t", "u", "n", "i", "t", "y">>,
      <<"f", "r", "o", "n", "t", "-", "e", "n", "d">>, <<"f", "r", "o", "n", "t", "e", "n", "d">>,
      <<"h", "y", "b", "r", "i", "d", " ", "c", "l", "o", "u", "d">>, <<"i", "t">>,
      <<"m", "i", "c", "r", "o", " ", "s", "e", "r", "v", "i", "c", "e", "s">>,
      <<"m", "i", "c", "r", "o", "s", "e", "r", "v", "i", "c", "e">>,
      <<"m", "i", "c", "r", "o", "s", "e", "r", "v", "i", "c", "e", "s">>,
      <<"p", "r", "e", "g", "n", "a", "n", "c", "y">>,
      <<"p", "r", "i", "v", "a", "t", "e", " ", "c", "l", "o", "u", "d">>,
      <<"p", "r", "o", "d", "u", "c", "t", " ", "d", "e", "v", "e", "l", "o", "p", "m", "e", "n", "t">>,
      <<"p", "r", "o", "g", "r", "a", "m", "m", "e", "r", "s">>,
      <<"p", "u", "b", "l", "i", "c", " ", "c", "l", "o", "u", "d">>,
      <<"r", "e", "l", "i", "g", "i", "o", "n">>, <<"r", "e", "s", "e", "a", "r", "c", "h">>,
      <<"r", "e", "s", "t", " ", "a", "p", "i">>, <<"r", "e", "s", "t", " ", "a", "p", "i", "s">>,
      <<"r", "e", "s", "t", "f", "u", "l", " ", "a", "p", "i">>,
      <<"r", "e", "s", "t", "f", "u", "l", " ", "a", "p", "i", "s">>,
      <<"r", "o", "c", "k", "e", "t">>, <<"s", "e", "c", "u", "r", "i", "t", "y">>,
      <<"s", "t", "a", "r", "t", "-", "u", "p">>, <<"s", "t", "a", "r", "t", "u", "p">>,
      <<"s", "t", "a", "t", "e", " ", "m", "a", "n", "a", "g", "e", "m", "e", "n", "t">>,
      <<"u", "s", "e", "r", " ", "e", "x", "p", "e", "r", "i", "e", "n", "c", "e">>,
      <<"u", "s", "e", "r", " ", "f", "e", "e", "d", "b", "a", "c", "k">>,
      <<"w", "e", "b", " ", "s", "e", "c", "u", "r", "i", "t", "y">>, <<"y", "a", "r", "n">>
    }

\* is_specific_enough: specific_technical_patterns
specific_technical_patterns ==
    {
      <<"a", "n", "g", "u", "l", "a", "r", ".", "j", "s">>,
      <<"a", "n", "g", "u", "l", "a", "r", "j", "s">>,
      <<"a", "w", "s", " ", "c", "l", "o", "u", "d", "w", "a", "t", "c", "h">>,
      <<"a", "w", "s", " ", "e", "c", "2">>, <<"a", "w", "s", " ", "l", "a", "m", "b", "d", "a">>,
      <<"a", "w", "s", " ", "r", "d", "s">>, <<"a", "w", "s", " ", "s", "3">>,
      <<"a", "w", "s", " ", "s", "n", "s">>, <<"a", "w", "s", " ", "s", "q", "s">>,
      <<"a", "z", "u", "r", "e", " ", "f", "u", "n", "c", "t", "i", "o", "n", "s">>,
      <<"c", "i", "/", "c", "d">>, <<"c", "i", "c", "d">>,
      <<"e", "x", "p", "r", "e", "s", "s", ".", "j", "s">>,
      <<"e", "x", "p", "r", "e", "s", "s", "j", "s">>,
      <<"g", "c", "p", " ", "c", "l", "o", "u", "d", " ", "f", "u", "n", "c", "t", "i", "o", "n", "s">>,
      <<"n", "o", "d", "e", ".", "j", "s">>, <<"n", "o", "d", "e", "j", "s">>,
      <<"r", "e", "a", "c", "t", ".", "j", "s">>, <<"r", "e", "a", "c", "t", "j", "s">>,
      <<"v", "u", "e", ".", "j", "s">>, <<"v", "u", "e", "j", "s">>
    }

\* is_specific_enough: allowed_combinations
allowed_combinations ==
    {
      <<"b", "o", "o", "t">>, <<"c", "o", "n", "t", "a", "i", "n", "e", "r">>,
      <<"c", "o", "n", "t", "a", "i", "n", "e", "r", "s">>,
      <<"d", "a", "t", "a", "b", "a", "s", "e">>, <<"d", "a", "t", "a", "b", "a", "s", "e", "s">>,
      <<"f", "r", "a", "m", "e", "w", "o", "r", "k">>, <<"j", "s">>, <<"j", "s", "x">>,
      <<"n", "a", "t", "i", "v", "e">>, <<"t", "s", "x">>
    }

\* has_skill_context: skill_verbs
skill_verbs ==
    {
      <<"b", "u", "i", "l", "d">>, <<"b", "u", "i", "l", "d", "i", "n", "g">>,
      <<"b", "u", "i", "l", "t">>, <<"c", "o", "d", "e">>, <<"c", "o", "d", "e", "d">>,
      <<"c", "o", "d", "i", "n", "g">>, <<"c", "r", "e", "a", "t", "e">>,
      <<"c", "r", "e", "a", "t", "e", "d">>, <<"c", "r", "e", "a", "t", "i", "n", "g">>,
      <<"d", "e", "s", "i", "g", "n">>, <<"d", "e", "s", "i", "g", "n", "e", "d">>,
      <<"d", "e", "s", "i", "g", "n", "i", "n", "g">>, <<"d", "e", "v", "e", "l", "o", "p">>,
      <<"d", "e", "v", "e", "l", "o", "p", "e", "d">>,
      <<"d", "e", "v", "e", "l", "o", "p", "i", "n", "g">>,
      <<"e", "x", "p", "e", "r", "i", "e", "n", "c", "e">>,
      <<"e", "x", "p", "e", "r", "i", "e", "n", "c", "e", "d">>, <<"e", "x", "p", "e", "r", "t">>,
      <<"e", "x", "p", "e", "r", "t", "i", "s", "e">>, <<"f", "a", "m", "i", "l", "i", "a", "r">>,
      <<"i", "m", "p", "l", "e", "m", "e", "n", "t">>,
      <<"i", "m", "p", "l", "e", "m", "e", "n", "t", "e", "d">>,
      <<"i", "m", "p", "l", "e", "m", "e", "n", "t", "i", "n", "g">>, <<"k", "n", "o", "w">>,
      <<"k", "n", "o", "w", "l", "e", "d", "g", "e">>, <<"k", "n", "o", "w", "n">>,
      <<"k", "n", "o", "w", "s">>, <<"m", "a", "s", "t", "e", "r">>,
      <<"m", "a", "s", "t", "e", "r", "e", "d">>, <<"m", "a", "s", "t", "e", "r", "i", "n", "g">>,
      <<"p", "r", "o", "f", "i", "c", "i", "e", "n", "t">>, <<"p", "r", "o", "g", "r", "a", "m">>,
      <<"p", "r", "o", "g", "r", "a", "m", "m", "e", "d">>,
      <<"p", "r", "o", "g", "r", "a", "m", "m", "i", "n", "g">>,
      <<"s", "k", "i", "l", "l", "e", "d">>, <<"u", "s", "e">>, <<"u", "s", "e", "d">>,
      <<"u", "s", "i", "n", "g">>, <<"u", "t", "i", "l", "i", "z", "e">>,
      <<"u", "t", "i", "l", "i", "z", "e", "d">>, <<"w", "o", "r", "k">>,
      <<"w", "o", "r", "k", "e", "d">>, <<"w", "o", "r", "k", "i", "n", "g">>,
      <<"w", "r", "i", "t", "e">>, <<"w", "r", "i", "t", "i", "n", "g">>,
      <<"w", "r", "o", "t", "e">>
    }

\* has_skill_context: skill_list_indicators
skill_list_indicators ==
    {
      <<"e", "x", "p", "e", "r", "i", "e", "n", "c", "e", " ", "w", "i", "t", "h">>,
      <<"f", "r", "a", "m", "e", "w", "o", "r", "k", "s">>,
      <<"g", "o", "o", "d", " ", "t", "o", " ", "h", "a", "v", "e">>,
      <<"l", "a", "n", "g", "u", "a", "g", "e", "s">>,
      <<"m", "u", "s", "t", " ", "h", "a", "v", "e">>,
      <<"p", "l", "a", "t", "f", "o", "r", "m", "s">>,
      <<"p", "r", "e", "f", "e", "r", "r", "e", "d">>,
      <<"p", "r", "o", "f", "i", "c", "i", "e", "n", "c", "y", " ", "i", "n">>,
      <<"q", "u", "a", "l", "i", "f", "i", "c", "a", "t", "i", "o", "n", "s">>,
      <<"r", "e", "q", "u", "i", "r", "e", "d">>,
      <<"r", "e", "q", "u", "i", "r", "e", "m", "e", "n", "t", "s">>, <<"s", "k", "i", "l", "l">>,
      <<"s", "k", "i", "l", "l", "s">>,
      <<"t", "e", "c", "h", "n", "o", "l", "o", "g", "i", "e", "s">>, <<"t", "o", "o", "l", "s">>
    }

\* has_skill_context: tech_followers
tech_followers ==
    {
      <<"d", "e", "v", "e", "l", "o", "p", "e", "r">>,
      <<"d", "e", "v", "e", "l", "o", "p", "m", "e", "n", "t">>,
      <<"e", "n", "g", "i", "n", "e", "e", "r">>, <<"f", "r", "a", "m", "e", "w", "o", "r", "k">>,
      <<"l", "i", "b", "r", "a", "r", "y">>, <<"p", "l", "a", "t", "f", "o", "r", "m">>,
      <<"p", "r", "o", "g", "r", "a", "m", "m", "i", "n", "g">>,
      <<"s", "e", "r", "v", "i", "c", "e">>, <<"t", "o", "o", "l">>
    }

----------------------------------------------------------------------------
(* SkillOntology                                                           *)

\* One entry of skill_ontology.json, "skills": {name: {type, weight, parents,
\* aliases}}; the file is the sequence of its entries. weight is a sequence of
\* zero or one numbers: empty when the entry carries no 'weight' key.
OntologyEntry(name, type, weight, parents, aliases) ==
    [name |-> name, type |-> type, weight |-> weight,
     parents |-> parents, aliases |-> aliases]

ontology_keys(file) ==
    UNION { {str_lower(file[i].name)} \cup {str_lower(a) : a \in Range(file[i].aliases)}
            : i \in DOMAIN file }

\* SkillOntology.load: skill_lookup[skill_name.lower()] and skill_lookup[alias.lower()]
\* are assigned entry by entry, so for a key assigned twice the later entry stays.
ontology_skill_lookup(file) ==
    [k \in ontology_keys(file) |->
        LET hits == {i \in DOMAIN file :
                        \/ str_lower(file[i].name) = k
                        \/ \E a \in Range(file[i].aliases) : str_lower(a) = k}
            last == CHOOSE i \in hits : \A j \in hits : j <= i
        IN  file[last]]

\* SkillOntology.load: parent_map[parent.lower()].append(skill_name)
RECURSIVE children_from(_, _, _)
children_from(file, key, i) ==
    IF i > Len(file) THEN <<>>
    ELSE LET hits == SelectSeq(file[i].parents, LAMBDA p : str_lower(p) = key)
         IN  [j \in 1..Len(hits) |-> file[i].name] \o children_from(file, key, i + 1)

ontology_parent_map(file) ==
    [k \in UNION {{str_lower(p) : p \in Range(file[i].parents)} : i \in DOMAIN file}
        |-> children_from(file, k, 1)]

\* SkillOntology.get_children
get_children(skill) ==
    LET skill_lower == str_strip(str_lower(skill))
    IN  IF skill_lower \in DOMAIN parent_map THEN parent_map[skill_lower] ELSE <<>>

----------------------------------------------------------------------------
(* collapse_overlapping_skills                                             *)

\* A result is the tuple (skill, canonical, weight).
lowered(names) == {str_lower(c) : c \in Range(names)}

\* key=lambda x: (-x[2], -len(x[0].split()), x[0].lower()), compared as tuples
sort_key_less(x, y) ==
    \/ x[3] > y[3]
    \/ /\ x[3] = y[3]
       /\ \/ Len(str_split(x[1])) > Len(str_split(y[1]))
          \/ /\ Len(str_split(x[1])) = Len(str_split(y[1]))
             /\ str_less(str_lower(x[1]), str_lower(y[1]))

RECURSIVE insert_by_key(_, _)
insert_by_key(e, s) ==
    IF s = <<>> THEN <<e>>
    ELSE IF sort_key_less(e, Head(s)) THEN <<e>> \o s
    ELSE <<Head(s)>> \o insert_by_key(e, Tail(s))

\* sorted(skills, key=...): Python's sort is stable
RECURSIVE sorted_by_key(_)
sorted_by_key(s) ==
    IF s = <<>> THEN <<>>
    ELSE insert_by_key(s[Len(s)], sorted_by_key(SubSeq(s, 1, Len(s) - 1)))

\* The inner loop over kept_skills: the first kept skill that decides, if any.
\* Each branch ends the loop (break). removed holds the lower-cased kept child
\* the skill replaces, if any.
RECURSIVE scan_kept(_, _, _)
scan_kept(kept_skills, skill, i) ==
    IF i > Len(kept_skills)
    THEN [is_subphrase |-> FALSE, removed |-> <<>>]
    ELSE LET kept_skill == kept_skills[i][1]
             kept_lower == str_lower(kept_skill)
             skill_lower == str_strip(str_lower(skill))
         IN  IF skill_lower \in lowered(get_children(kept_skill))
             THEN [is_subphrase |-> TRUE, removed |-> <<>>]
             ELSE IF kept_lower \in lowered(get_children(skill))
             THEN [is_subphrase |-> FALSE, removed |-> <<kept_lower>>]
             ELSE scan_kept(kept_skills, skill, i + 1)

\* "Also check SKILL_HIERARCHY for backwards compatibility"
hierarchy_subphrase(kept_skills, skill_lower) ==
    \E r \in Range(SKILL_HIERARCHY) :
        /\ skill_lower \in Range(r.children)
        /\ \E k \in Range(kept_skills) : str_in(r.parent, str_lower(k[1]))

\* One iteration of the loop over sorted_skills
collapse_step(kept_skills, entry) ==
    LET skill == entry[1]
        skill_lower == str_strip(str_lower(skill))
        hit == scan_kept(kept_skills, skill, 1)
        kept1 == IF hit.removed = <<>> THEN kept_skills
                 ELSE SelectSeq(kept_skills, LAMBDA k : str_lower(k[1]) # hit.removed[1])
        is_subphrase == hit.is_subphrase \/ hierarchy_subphrase(kept1, skill_lower)
    IN  IF is_subphrase THEN kept1 ELSE Append(kept1, entry)

RECURSIVE collapse_loop(_, _)
collapse_loop(kept_skills, sorted_skills) ==
    IF sorted_skills = <<>> THEN kept_skills
    ELSE collapse_loop(collapse_step(kept_skills, Head(sorted_skills)), Tail(sorted_skills))

collapse_overlapping_skills(skills_) ==
    IF skills_ = <<>> THEN <<>>
    ELSE collapse_loop(<<>>, sorted_by_key(skills_))

----------------------------------------------------------------------------
(* SkillClassifier                                                         *)

\* 1.00 in hundredths
SimUnit == 100

\* weight 1.0 in halves
WeightUnit == 2

\* min_tech_similarity = 0.3
MinTechSimilarity == 30

\* threshold: float = 0.15
DefaultThreshold == 15

max2(a, b) == IF a >= b THEN a ELSE b
min2(a, b) == IF a <= b THEN a ELSE b

\* SkillClassifier.__init__ when the embeddings cache loads
ClassifierLoaded ==
    [available |-> TRUE, model |-> TRUE,
     important_tech_embeddings |-> TRUE, less_important_tech_embeddings |-> TRUE,
     non_tech_embeddings |-> TRUE, tech_embeddings |-> TRUE,
     classification_count |-> 0, filtered_count |-> 0, kept_count |-> 0]

\* SkillClassifier.__init__ when sentence-transformers or the cache is missing
ClassifierUnavailable ==
    [available |-> FALSE, model |-> FALSE,
     important_tech_embeddings |-> FALSE, less_important_tech_embeddings |-> FALSE,
     non_tech_embeddings |-> FALSE, tech_embeddings |-> FALSE,
     classification_count |-> 0, filtered_count |-> 0, kept_count |-> 0]

three_sets_loaded(c) ==
    /\ c.important_tech_embeddings
    /\ c.less_important_tech_embeddings
    /\ c.non_tech_embeddings

\* technical_verdict with the minimum similarity compared by >= instead of >
technical_verdict_minimum_inclusive(important, less_important, non_tech, threshold) ==
    LET max_tech_sim == max2(important, less_important)
        max_confidence == max2(important - non_tech, less_important - non_tech)
    IN  max_confidence > threshold /\ max_tech_sim >= MinTechSimilarity

\* is_technical_skill: the decision from the three maximum similarities
technical_verdict(important, less_important, non_tech, threshold) ==
    LET max_tech_sim == max2(important, less_important)
        confidence_important == important - non_tech
        confidence_less_important == less_important - non_tech
        max_confidence == max2(confidence_important, confidence_less_important)
    IN  max_confidence > threshold /\ max_tech_sim > MinTechSimilarity

\* is_technical_skill: "Determine category"
technical_category(is_technical, important, less_important) ==
    IF is_technical
    THEN (IF important > less_important THEN "IMPORTANT_TECH" ELSE "LESS_IMPORTANT_TECH")
    ELSE "NON-TECH"

\* _classify_with_combined_embeddings: tech_embeddings is the concatenation of the
\* two technical sets
combined_verdict(important, less_important, non_tech, threshold) ==
    LET max_tech_sim == max2(important, less_important)
        confidence == max_tech_sim - non_tech
    IN  confidence > threshold /\ max_tech_sim > MinTechSimilarity

\* statistics that leave the filtered phrases out of filtered_count
count_one_kept_only(c, is_technical) ==
    [c EXCEPT !.classification_count = @ + 1,
              !.kept_count = IF is_technical THEN @ + 1 ELSE @]

count_one(c, is_technical) ==
    [c EXCEPT !.classification_count = @ + 1,
              !.kept_count = IF is_technical THEN @ + 1 ELSE @,
              !.filtered_count = IF is_technical THEN @ ELSE @ + 1]

\* SkillClassifier.is_technical_skill: the value returned, the category decided
\* (NoCategory when none is) and the classifier afterwards
NoCategory == "none"

\* a classification that rejects the phrase when encoding it fails
is_technical_skill_fail_closed(c, skill, threshold) ==
    LET e == encoder[skill]
        v == /\ e.outcome = "ok"
             /\ technical_verdict(e.important, e.less_important, e.non_tech, threshold)
    IN  IF ~c.available \/ ~c.model
        THEN [ret |-> TRUE, category |-> NoCategory, classifier |-> c]
        ELSE [ret |-> v,
              category |-> technical_category(v, e.important, e.less_important),
              classifier |-> count_one(c, v)]

is_technical_skill(c, skill, threshold) ==
    LET e == encoder[skill]
        v == technical_verdict(e.important, e.less_important, e.non_tech, threshold)
    IN  IF ~c.available \/ ~c.model
        THEN [ret |-> TRUE, category |-> NoCategory, classifier |-> c]
        ELSE IF ~three_sets_loaded(c)
        THEN IF c.tech_embeddings /\ c.non_tech_embeddings
             THEN [ret |-> IF e.outcome = "ok"
                           THEN combined_verdict(e.important, e.less_important,
                                                 e.non_tech, threshold)
                           ELSE TRUE,
                   category |-> NoCategory, classifier |-> c]
             ELSE [ret |-> TRUE, category |-> NoCategory, classifier |-> c]
        ELSE IF e.outcome # "ok"
        THEN [ret |-> TRUE, category |-> NoCategory, classifier |-> c]
        ELSE [ret |-> v,
              category |-> technical_category(v, e.important, e.less_important),
              classifier |-> count_one(c, v)]

\* model.encode(batch): one call for the whole batch; it raises what the first
\* phrase that cannot be encoded raises
RECURSIVE batch_encode_outcome(_)
batch_encode_outcome(batch) ==
    IF batch = <<>> THEN "ok"
    ELSE IF encoder[Head(batch)].outcome # "ok" THEN encoder[Head(batch)].outcome
    ELSE batch_encode_outcome(Tail(batch))

\* batch_classify_skills: the vectorized mask of one phrase of a batch
batch_technical_mask(important, less_important, non_tech, threshold) ==
    LET max_tech_sims == max2(important, less_important)
        confidence_important == important - non_tech
        confidence_less_important == less_important - non_tech
        max_confidences == max2(confidence_important, confidence_less_important)
    IN  (max_confidences > threshold) /\ (max_tech_sims > MinTechSimilarity)

\* batch_classify_skills: "for j, skill in enumerate(batch)"
RECURSIVE batch_add(_, _, _)
batch_add(acc, batch, threshold) ==
    IF batch = <<>> THEN acc
    ELSE LET skill == Head(batch)
             e == encoder[skill]
             m == batch_technical_mask(e.important, e.less_important, e.non_tech, threshold)
         IN  batch_add([technical_skills |-> IF m THEN acc.technical_skills \cup {skill}
                                             ELSE acc.technical_skills,
                        classifier |-> count_one(acc.classifier, m),
                        raised |-> FALSE],
                       Tail(batch), threshold)

\* batch_classify_skills: "for i in range(0, len(skills), batch_size)"; i counts
\* from 0. raised: an exception other than a broken pipe left the loop.
RECURSIVE batch_loop(_, _, _, _, _)
batch_loop(acc, skills_, threshold, batch_size, i) ==
    IF i >= Len(skills_) THEN acc
    ELSE LET batch == SubSeq(skills_, i + 1, min2(i + batch_size, Len(skills_)))
             outcome == batch_encode_outcome(batch)
         IN  IF outcome = "broken_pipe"
             THEN batch_loop([acc EXCEPT !.technical_skills = @ \cup Range(batch)],
                             skills_, threshold, batch_size, i + batch_size)
             ELSE IF outcome # "ok"
             THEN [acc EXCEPT !.raised = TRUE]
             ELSE batch_loop(batch_add(acc, batch, threshold),
                             skills_, threshold, batch_size, i + batch_size)

\* _batch_classify_with_combined_embeddings: "for j, skill in enumerate(batch)"
RECURSIVE combined_batch_add(_, _, _)
combined_batch_add(acc, batch, threshold) ==
    IF batch = <<>> THEN acc
    ELSE LET skill == Head(batch)
             e == encoder[skill]
             m == combined_verdict(e.important, e.less_important, e.non_tech, threshold)
         IN  combined_batch_add([technical_skills |-> IF m THEN acc.technical_skills \cup {skill}
                                                      ELSE acc.technical_skills,
                                 classifier |-> count_one(acc.classifier, m),
                                 raised |-> FALSE],
                                Tail(batch), threshold)

\* _batch_classify_with_combined_embeddings
RECURSIVE combined_batch_loop(_, _, _, _, _)
combined_batch_loop(acc, skills_, threshold, batch_size, i) ==
    IF i >= Len(skills_) THEN acc
    ELSE LET batch == SubSeq(skills_, i + 1, min2(i + batch_size, Len(skills_)))
         IN  IF batch_encode_outcome(batch) # "ok"
             THEN [acc EXCEPT !.raised = TRUE]
             ELSE combined_batch_loop(combined_batch_add(acc, batch, threshold),
                                      skills_, threshold, batch_size, i + batch_size)

\* SkillClassifier.batch_classify_skills: the set returned and the classifier
\* afterwards (batch_size >= 1)
batch_classify_skills(c, skills_, threshold, batch_size) ==
    LET start == [technical_skills |-> {}, classifier |-> c, raised |-> FALSE]
    IN  IF ~c.available \/ ~c.model
        THEN [ret |-> Range(skills_), classifier |-> c]
        ELSE IF ~three_sets_loaded(c)
        THEN IF c.tech_embeddings /\ c.non_tech_embeddings
             THEN LET r == combined_batch_loop(start, skills_, threshold, batch_size, 0)
                  IN  [ret |-> IF r.raised THEN Range(skills_) ELSE r.technical_skills,
                       classifier |-> r.classifier]
             ELSE [ret |-> Range(skills_), classifier |-> c]
        ELSE LET r == batch_loop(start, skills_, threshold, batch_size, 0)
             IN  [ret |-> IF r.raised THEN Range(skills_) ELSE r.technical_skills,
                  classifier |-> r.classifier]

----------------------------------------------------------------------------
(* _extract_skills_internal: the three tier lists                          *)

IMPORTANT_KEYWORDS_BLACKLIST ==
    { <<"c", "o", "m", "p", "u", "t", "e", "r", " ", "s", "c", "i", "e", "n", "c", "e">>,
      <<"c", "s">>,
      <<"i", "n", "f", "o", "r", "m", "a", "t", "i", "o", "n", " ", "t", "e", "c", "h", "n", "o", "l", "o", "g", "y">>,
      <<"i", "t">>,
      <<"s", "o", "f", "t", "w", "a", "r", "e", " ", "d", "e", "v", "e", "l", "o", "p", "m", "e", "n", "t">>,
      <<"w", "e", "b", " ", "d", "e", "v", "e", "l", "o", "p", "m", "e", "n", "t">>,
      <<"a", "p", "p", "l", "i", "c", "a", "t", "i", "o", "n", " ", "d", "e", "v", "e", "l", "o", "p", "m", "e", "n", "t">>,
      <<"p", "r", "o", "g", "r", "a", "m", "m", "i", "n", "g">>,
      <<"c", "o", "d", "i", "n", "g">>,
      <<"c", "o", "d", "e">>,
      <<"c", "o", "d", "e", "s">>,
      <<"c", "o", "d", "e", "d">>,
      <<"c", "o", "d", "e", "r">>,
      <<"c", "o", "d", "e", "r", "s">>,
      <<"s", "o", "f", "t", "w", "a", "r", "e", " ", "e", "n", "g", "i", "n", "e", "e", "r", "i", "n", "g">>,
      <<"c", "o", "d", "e", " ", "r", "e", "v", "i", "e", "w">>,
      <<"c", "o", "d", "e", " ", "r", "e", "v", "i", "e", "w", "s">>,
      <<"t", "e", "c", "h", "n", "i", "c", "a", "l", " ", "s", "k", "i", "l", "l", "s">>,
      <<"t", "e", "c", "h", "n", "i", "c", "a", "l", " ", "k", "n", "o", "w", "l", "e", "d", "g", "e">>,
      <<"t", "e", "c", "h", "n", "i", "c", "a", "l", " ", "w", "r", "i", "t", "i", "n", "g">> }

\* is_blacklisted_skill
is_blacklisted_skill(skill_name) ==
    LET skill_lower == str_strip(str_lower(skill_name))
    IN  IF skill_name = <<>> THEN FALSE
        ELSE \/ skill_lower \in IMPORTANT_KEYWORDS_BLACKLIST
             \/ \E blacklisted_term \in IMPORTANT_KEYWORDS_BLACKLIST :
                    \/ str_in(blacklisted_term, skill_lower)
                    \/ str_in(skill_lower, blacklisted_term)

\* "Minimum similarity threshold" 0.3 of the tier assignment
ServiceMinSimilarity == 30

\* has_classifier
has_classifier(c) ==
    /\ c.available
    /\ c.model
    /\ three_sets_loaded(c)

\* "classify based on weight": weight in halves
weight_based_tier(weight) ==
    IF weight >= 2 * WeightUnit THEN "important"
    ELSE IF weight >= 1 * WeightUnit THEN "less_important"
    ELSE "non_technical"

\* The list one (skill, canonical, weight) of skill_tuples is appended to;
\* normalized_skill is its display name, the phrase that is encoded.
service_tier(c, normalized_skill, skill, weight) ==
    LET e == encoder[normalized_skill]
        important_sim == e.important
        less_important_sim == e.less_important
        non_tech_sim == e.non_tech
        max_sim == max2(max2(important_sim, less_important_sim), non_tech_sim)
        is_blacklisted == is_blacklisted_skill(normalized_skill) \/ is_blacklisted_skill(skill)
    IN  IF is_blacklisted
        THEN IF has_classifier(c)
             THEN IF e.outcome # "ok" THEN "non_technical"
                  ELSE IF less_important_sim > non_tech_sim
                          /\ less_important_sim > ServiceMinSimilarity
                  THEN "less_important"
                  ELSE "non_technical"
             ELSE "less_important"
        ELSE IF has_classifier(c)
        THEN IF e.outcome # "ok" THEN weight_based_tier(weight)
             ELSE IF max_sim > ServiceMinSimilarity
             THEN IF important_sim = max_sim /\ important_sim > ServiceMinSimilarity
                  THEN "important"
                  ELSE IF less_important_sim = max_sim
                          /\ less_important_sim > ServiceMinSimilarity
                  THEN "less_important"
                  ELSE "non_technical"
             ELSE weight_based_tier(weight)
        ELSE weight_based_tier(weight)

----------------------------------------------------------------------------
(* SkillOntology lookups, get_skill_weight                                 *)

\* SkillOntology.get_skill_info: a sequence of zero (None) or one entry
get_skill_info(skill) ==
    LET skill_lower == str_strip(str_lower(skill))
    IN  IF skill_lower \in DOMAIN skill_lookup THEN <<skill_lookup[skill_lower]>> ELSE <<>>

\* get_skill_weight: 0..3 as the code returns it
get_skill_weight(skill) ==
    LET skill_lower == str_strip(str_lower(skill))
        related(table) == \E t \in table : str_in(t, skill_lower) \/ str_in(skill_lower, t)
    IN  IF skill_lower \in core_languages THEN 3
        ELSE IF skill_lower \in major_frameworks THEN 2
        ELSE IF skill_lower \in tools_platforms THEN 1
        ELSE IF related(core_languages) THEN 3
        ELSE IF related(major_frameworks) THEN 2
        ELSE IF related(tools_platforms) THEN 1
        ELSE 0

\* SkillOntology.get_weight, in halves
get_weight(skill) ==
    LET skill_info == get_skill_info(skill)
    IN  IF skill_info # <<>> /\ skill_info[1].weight # <<>>
        THEN skill_info[1].weight[1] * WeightUnit
        ELSE get_skill_weight(skill) * WeightUnit

----------------------------------------------------------------------------
(* SkillsDatabase                                                          *)

\* _get_canonical: "Check normalized mapping", the first key of CANONICAL_MAP with
\* the normal form; "Default: return normalized form". CANONICAL_MAP_normalized
\* holds self._normalize(key) of every key.
CANONICAL_MAP_normalized == [i \in DOMAIN CANONICAL_MAP |-> _normalize(CANONICAL_MAP[i][1])]

RECURSIVE canonical_by_normal_form(_, _)
canonical_by_normal_form(normalized, i) ==
    IF i > Len(CANONICAL_MAP) THEN normalized
    ELSE IF CANONICAL_MAP_normalized[i] = normalized THEN CANONICAL_MAP[i][2]
    ELSE canonical_by_normal_form(normalized, i + 1)

\* SkillsDatabase._get_canonical
_get_canonical(skill) ==
    LET skill_lower == str_strip(str_lower(skill))
    IN  IF \E i \in DOMAIN CANONICAL_MAP : CANONICAL_MAP[i][1] = skill_lower
        THEN CANONICAL_MAP[CHOOSE i \in DOMAIN CANONICAL_MAP :
                               CANONICAL_MAP[i][1] = skill_lower][2]
        ELSE canonical_by_normal_form(_normalize(skill_lower), 1)

\* SkillsDatabase.__init__
DatabaseNotLoaded ==
    [loaded |-> FALSE, skills |-> <<>>, canonical_map |-> <<>>,
     reverse_canonical |-> <<>>, custom_keywords_normalized |-> {}]

\* sorted(list(skills_set))
RECURSIVE sorted_strs(_)
sorted_strs(S) ==
    IF S = {} THEN <<>>
    ELSE LET m == CHOOSE x \in S : \A y \in S : x = y \/ str_less(x, y)
         IN  <<m>> \o sorted_strs(S \ {m})

\* the variations of all keyword objects, in the order the load visits them
RECURSIVE all_variations(_)
all_variations(keywords) ==
    IF keywords = <<>> THEN <<>>
    ELSE Head(keywords).variations \o all_variations(Tail(keywords))

\* a merge that leaves out a variation whose normalized form is already there
RECURSIVE add_custom_variations_by_normal_form(_, _)
add_custom_variations_by_normal_form(skills_set, variations) ==
    IF variations = <<>> THEN skills_set
    ELSE LET variation == Head(variations)
             skills_normalized == {_normalize(str_lower(s)) : s \in skills_set}
         IN  IF _normalize(str_lower(variation)) \in skills_normalized
             THEN add_custom_variations_by_normal_form(skills_set, Tail(variations))
             ELSE add_custom_variations_by_normal_form(skills_set \cup {variation},
                                                       Tail(variations))

\* load: a variation is added unless skills_set holds it already, compared in
\* lower case; each of the three other branches adds it
RECURSIVE add_custom_variations(_, _)
add_custom_variations(skills_set, variations) ==
    IF variations = <<>> THEN skills_set
    ELSE LET variation == Head(variations)
             skills_lower == {str_lower(s) : s \in skills_set}
         IN  IF str_lower(variation) \in skills_lower
             THEN add_custom_variations(skills_set, Tail(variations))
             ELSE add_custom_variations(skills_set \cup {variation}, Tail(variations))

\* get_custom_keywords_normalized_set
get_custom_keywords_normalized_set(keywords) ==
    {_normalize(str_lower(variation)) : variation \in Range(all_variations(keywords))}

\* batch_size: int = 500
DefaultBatchSize == 500

\* SkillsDatabase.load on the rows all_skills of the CSV and the custom keyword
\* objects keywords: the database and the classifier afterwards
load(c, all_skills, keywords) ==
    LET classified == IF c.available /\ all_skills # <<>>
                      THEN batch_classify_skills(c, all_skills, DefaultThreshold,
                                                 DefaultBatchSize)
                      ELSE [ret |-> Range(all_skills), classifier |-> c]
        skills_set == add_custom_variations(classified.ret, all_variations(keywords))
        skills_ == sorted_strs(skills_set)
        canonical_of == [s \in skills_set |-> _get_canonical(str_lower(s))]
    IN  [skills_db |->
            [loaded |-> TRUE,
             skills |-> skills_,
             canonical_map |->
                 [k \in {str_lower(s) : s \in skills_set} |->
                     canonical_of[CHOOSE s \in skills_set : str_lower(s) = k]],
             reverse_canonical |->
                 [k \in Range(canonical_of) |->
                     SelectSeq(skills_, LAMBDA s : canonical_of[s] = k)],
             custom_keywords_normalized |->
                 get_custom_keywords_normalized_set(keywords)],
         classifier |-> classified.classifier]

\* SkillsDatabase.is_custom_keyword
is_custom_keyword(db, skill) ==
    _normalize(str_lower(skill)) \in db.custom_keywords_normalized

\* SkillsDatabase.get_canonical_skill: a sequence of zero (None) or one name
get_canonical_skill(db, skill) ==
    LET skill_lower == str_strip(str_lower(skill))
        canonical == IF skill_lower \in DOMAIN db.canonical_map
                     THEN db.canonical_map[skill_lower] ELSE <<>>
    IN  IF canonical # <<>> /\ canonical \in DOMAIN db.reverse_canonical
           /\ db.reverse_canonical[canonical] # <<>>
        THEN <<db.reverse_canonical[canonical][1]>>
        ELSE <<>>

----------------------------------------------------------------------------
(* Rule-based filters of SkillsDatabase                                    *)

\* next((i for i, w in enumerate(words) if w in table), -1), i from 0
first_index(words, table) ==
    IF \E i \in DOMAIN words : words[i] \in table
    THEN (CHOOSE i \in DOMAIN words :
              /\ words[i] \in table
              /\ \A j \in DOMAIN words : words[j] \in table => i <= j) - 1
    ELSE -1

\* a type gate that admits a name of several words for its technology word
is_valid_skill_type_by_anchor(skill) ==
    LET skill_lower == str_strip(str_lower(skill))
        words == str_split(skill_lower)
        skill_info == get_skill_info(skill)
    IN  IF skill_lower \in ABSTRACT_CONCEPTS THEN FALSE
        ELSE IF \E w \in Range(words) : w \in ABSTRACT_CONCEPTS THEN FALSE
        ELSE IF skill_lower \in INDUSTRY_TERMS THEN FALSE
        ELSE IF \E w \in Range(words) : w \in INDUSTRY_TERMS THEN FALSE
        ELSE IF /\ skill_info # <<>>
                /\ str_lower(skill_info[1].type) \in ALLOWED_SKILL_TYPES
        THEN TRUE
        ELSE IF Len(words) = 1 THEN skill_lower \in SPECIFIC_SINGLE_WORD_SKILLS
        ELSE \E w \in Range(words) : w \in SPECIFIC_SINGLE_WORD_SKILLS

\* SkillsDatabase.is_valid_skill_type
is_valid_skill_type(skill) ==
    LET skill_lower == str_strip(str_lower(skill))
        words == str_split(skill_lower)
        skill_info == get_skill_info(skill)
        has_specific_tech == \E w \in Range(words) : w \in SPECIFIC_SINGLE_WORD_SKILLS
        tech_idx == first_index(words, SPECIFIC_SINGLE_WORD_SKILLS)
        generic_idx == first_index(words, generic_patterns)
    IN  IF skill_lower \in ABSTRACT_CONCEPTS THEN FALSE
        ELSE IF \E w \in Range(words) : w \in ABSTRACT_CONCEPTS THEN FALSE
        ELSE IF skill_lower \in INDUSTRY_TERMS THEN FALSE
        ELSE IF \E w \in Range(words) : w \in INDUSTRY_TERMS THEN FALSE
        ELSE IF /\ skill_info # <<>>
                /\ str_lower(skill_info[1].type) \in ALLOWED_SKILL_TYPES
                /\ skill_lower \notin ABSTRACT_CONCEPTS
        THEN TRUE
        ELSE IF Len(words) = 1 THEN skill_lower \in SPECIFIC_SINGLE_WORD_SKILLS
        ELSE IF ~has_specific_tech THEN FALSE
        ELSE IF /\ \E pattern \in generic_patterns : str_in(pattern, skill_lower)
                /\ words[1] \notin SPECIFIC_SINGLE_WORD_SKILLS
                /\ (tech_idx > generic_idx \/ tech_idx = -1)
        THEN FALSE
        ELSE IF get_weight(skill) = 0 THEN FALSE
        ELSE FALSE

\* SkillsDatabase.is_specific_enough
is_specific_enough(skill) ==
    LET skill_lower == str_strip(str_lower(skill))
        words == str_split(skill_lower)
        tech_word_idx == first_index(words, SPECIFIC_SINGLE_WORD_SKILLS)
        has_specific_tech == tech_word_idx # -1
        skill_info == get_skill_info(skill)
    IN  IF Len(skill_lower) <= 2 /\ skill_lower \notin SPECIFIC_SINGLE_WORD_SKILLS THEN FALSE
        ELSE IF Len(words) = 1
        THEN (IF skill_lower \in common_words THEN FALSE
              ELSE skill_lower \in SPECIFIC_SINGLE_WORD_SKILLS)
        ELSE IF ~has_specific_tech THEN FALSE
        ELSE IF \E i \in DOMAIN words :
                    /\ words[i] \in generic_modifiers
                    /\ (tech_word_idx > i - 1 \/ i - 1 = 0)
        THEN FALSE
        ELSE IF \E pattern \in abstract_patterns : str_in(pattern, skill_lower) THEN FALSE
        ELSE IF skill_info # <<>> /\ skill_info[1].parents # <<>> THEN TRUE
        ELSE IF \E pattern \in specific_technical_patterns : str_in(pattern, skill_lower)
        THEN TRUE
        ELSE IF tech_word_idx = 0 /\ Len(words) >= 2 /\ words[2] \in allowed_combinations
        THEN TRUE
        ELSE FALSE

\* SkillsDatabase.is_garbage_skill
is_garbage_skill(skill) ==
    LET skill_lower == str_strip(str_lower(skill))
        words == str_split(skill_lower)
    IN  IF ~is_valid_skill_type(skill) THEN TRUE
        ELSE IF ~is_specific_enough(skill) THEN TRUE
        ELSE IF skill_lower \in GARBAGE_SKILLS THEN TRUE
        ELSE IF \E garbage_term \in GARBAGE_SKILLS :
                    /\ Len(str_split(garbage_term)) > 1
                    /\ (str_in(garbage_term, skill_lower) \/ str_in(skill_lower, garbage_term))
        THEN TRUE
        ELSE \E w \in Range(words) : w \in GARBAGE_SKILLS

\* SkillsDatabase.is_low_priority
is_low_priority(skill) ==
    LET skill_lower == str_strip(str_lower(skill))
        words == str_split(skill_lower)
    IN  \/ skill_lower \in LOW_PRIORITY_SKILLS
        \/ \E w \in Range(words) : w \in LOW_PRIORITY_SKILLS

----------------------------------------------------------------------------
(* Tokens, PhraseMatcher, has_skill_context                                *)

\* A token of the spaCy doc: text, whether whitespace follows it (whitespace_),
\* lemma_, pos_ and the label of the entity it belongs to ("" when none).
Token(text, ws, lemma, pos, ent) ==
    [text |-> text, ws |-> ws, lemma |-> lemma, pos |-> pos, ent |-> ent]

SpaceToken == Token(<<" ">>, FALSE, <<" ">>, "SPACE", "")

\* text.replace(',', ' ').replace(';', ' ') followed by tokenization: the token
\* before the separator is now followed by whitespace, and a separator that was
\* itself followed by whitespace leaves a whitespace token (two spaces in a row)
RECURSIVE preprocess(_)
preprocess(tokens) ==
    IF tokens = <<>> THEN <<>>
    ELSE IF Len(tokens) >= 2 /\ tokens[2].text \in {<<",">>, <<";">>}
    THEN <<[tokens[1] EXCEPT !.ws = TRUE]>>
         \o (IF tokens[2].ws THEN <<SpaceToken>> ELSE <<>>)
         \o preprocess(SubSeq(tokens, 3, Len(tokens)))
    ELSE <<Head(tokens)>> \o preprocess(Tail(tokens))

\* span.text of doc[start:end], start from 0 and end exclusive
RECURSIVE span_text(_, _, _)
span_text(doc_, start, end) ==
    IF start >= end THEN <<>>
    ELSE doc_[start + 1].text
         \o (IF doc_[start + 1].ws /\ start + 1 < end THEN <<" ">> ELSE <<>>)
         \o span_text(doc_, start + 1, end)

\* PhraseMatcher(attr="LOWER") with one pattern per vocabulary entry: the spans
\* whose tokens, lower-cased, are the tokens of a pattern
phrase_spans(doc_, skills_) ==
    UNION { LET pattern == str_split(str_lower(skills_[k]))
            IN  { <<start, start + Len(pattern)>> :
                    start \in { i \in 0..(Len(doc_) - Len(pattern)) :
                                  /\ pattern # <<>>
                                  /\ \A j \in 1..Len(pattern) :
                                        str_lower(doc_[i + j].text) = pattern[j] } }
            : k \in DOMAIN skills_ }

\* matcher(doc): the matches in the order the matcher reports them, by the token
\* that ends the match and then by the token that starts it
RECURSIVE ordered_spans(_)
ordered_spans(S) ==
    IF S = {} THEN <<>>
    ELSE LET m == CHOOSE x \in S :
                      \A y \in S : x[2] < y[2] \/ (x[2] = y[2] /\ x[1] <= y[1])
         IN  <<m>> \o ordered_spans(S \ {m})

matcher(doc_, skills_) == ordered_spans(phrase_spans(doc_, skills_))

\* str.isupper() of one character
char_isupper(c) == c = KelvinSign \/ \E i \in DOMAIN UpperCase : UpperCase[i] = c

\* has_skill_context(span, doc)
has_skill_context(span, doc_) ==
    LET start_idx == span[1]
        span_len == span[2] - span[1]
        span_tokens == SubSeq(doc_, span[1] + 1, span[2])
        is_noun_phrase == \E t \in Range(span_tokens) : t.pos \in {"NOUN", "PROPN"}
        prev_tokens == SubSeq(doc_, max2(0, start_idx - 5) + 1, start_idx)
        prev_text == str_join([i \in DOMAIN prev_tokens |-> str_lower(prev_tokens[i].lemma)])
        text == span_text(doc_, span[1], span[2])
    IN  IF /\ start_idx > 0
           /\ \/ \E indicator \in skill_list_indicators : str_in(indicator, prev_text)
              \/ \E verb \in skill_verbs : str_in(verb, prev_text)
        THEN TRUE
        ELSE IF \E t \in Range(span_tokens) : t.ent \in {"PRODUCT", "LANGUAGE"} THEN TRUE
        ELSE IF is_noun_phrase THEN TRUE
        ELSE IF /\ start_idx + span_len < Len(doc_)
                /\ str_lower(doc_[start_idx + span_len + 1].lemma) \in tech_followers
        THEN TRUE
        ELSE IF /\ is_noun_phrase
                /\ char_isupper(text[1])
                /\ Len(str_split(text)) <= 2
        THEN TRUE
        ELSE FALSE

----------------------------------------------------------------------------
(* extract_skills_with_phrasematcher                                       *)

char_upper(c) ==
    IF \E i \in 1..Len(LowerCase) : LowerCase[i] = c
    THEN UpperCase[CHOOSE i \in 1..Len(LowerCase) : LowerCase[i] = c]
    ELSE c

is_letter(c) == c \in Range(LowerCase) \/ c \in Range(UpperCase) \/ c = KelvinSign

RECURSIVE title_from(_, _)
title_from(s, after_letter) ==
    IF s = <<>> THEN <<>>
    ELSE <<IF after_letter THEN char_lower(Head(s)) ELSE char_upper(Head(s))>>
         \o title_from(Tail(s), is_letter(Head(s)))

\* str.title()
str_title(s) == title_from(s, FALSE)

----------------------------------------------------------------------------
(* custom_keywords_loader                                                  *)

\* str.upper()
str_upper(s) == [i \in DOMAIN s |-> char_upper(s[i])]

\* str.capitalize()
str_capitalize(s) ==
    IF s = <<>> THEN <<>> ELSE <<char_upper(Head(s))>> \o str_lower(Tail(s))

\* str.isupper(): a cased character, and no cased character in lower case
str_isupper(s) ==
    /\ \E i \in DOMAIN s : char_isupper(s[i])
    /\ \A i \in DOMAIN s : s[i] \notin Range(LowerCase)

\* sep.join(base): the characters of base with sep between them
RECURSIVE join_characters(_, _)
join_characters(sep, base) ==
    IF Len(base) <= 1 THEN base
    ELSE <<Head(base)>> \o sep \o join_characters(sep, Tail(base))

\* base.replace(' ', sep)
RECURSIVE replace_spaces(_, _)
replace_spaces(base, sep) ==
    IF base = <<>> THEN <<>>
    ELSE (IF Head(base) = " " THEN sep ELSE <<Head(base)>>)
         \o replace_spaces(Tail(base), sep)

\* the three spellings variations.add receives for one form
with_cases(form) == {form, str_lower(form), str_upper(form)}

\* generate_variations: the case forms, the punctuated forms of a short
\* upper-case keyword, the separator forms of a keyword of several words
generate_variations(base) ==
    LET case_forms == {base, str_lower(base), str_upper(base)}
                          \cup (IF Len(base) > 1 THEN {str_capitalize(base)} ELSE {})
        punctuated(sep) == {join_characters(sep, base),
                            str_lower(join_characters(sep, base))}
        acronym_forms == IF str_isupper(base) /\ Len(base) <= 10 /\ Len(base) > 1
                         THEN punctuated(<<".">>) \cup punctuated(<<"-">>)
                                  \cup punctuated(<<"_">>)
                         ELSE {}
        separator_forms == IF " " \in Range(base)
                           THEN with_cases(base)
                                    \cup with_cases(replace_spaces(base, <<"-">>))
                                    \cup with_cases(replace_spaces(base, <<"_">>))
                           ELSE {}
    IN  sorted_strs(case_forms \cup acronym_forms \cup separator_forms)

\* load_custom_keywords on the keyword objects of custom_keywords.json: the
\* variations generated, merged with the variations the file gives
load_custom_keywords(keywords) ==
    [i \in DOMAIN keywords |->
        [base |-> keywords[i].base,
         variations |-> sorted_strs(Range(keywords[i].variations)
                                        \cup Range(generate_variations(keywords[i].base)))]]

----------------------------------------------------------------------------
(* SkillsDatabase._format_title_case and normalize_skill_display           *)

\* str.islower(): a cased character, and no cased character in upper case
str_islower(s) ==
    /\ \E i \in DOMAIN s : s[i] \in Range(LowerCase)
    /\ \A i \in DOMAIN s : ~char_isupper(s[i])

\* dash_acronym_pattern, matched ignoring case: three or four single letters
\* with dashes between them
dash_acronym(text) ==
    /\ Len(text) \in {5, 7}
    /\ \A i \in DOMAIN text : IF i % 2 = 1 THEN is_letter(text[i]) ELSE text[i] = "-"

\* text.replace('_', ' ').replace('-', ' ')
separators_to_spaces(text) ==
    [i \in DOMAIN text |-> IF text[i] \in {"_", "-"} THEN " " ELSE text[i]]

COMMON_ACRONYMS ==
    {
      <<"2", "f", "a">>, <<"a", "d">>, <<"a", "i">>, <<"a", "p", "i">>, <<"a", "w", "s">>,
      <<"a", "z", "u", "r", "e">>, <<"b", "p", "m", "n">>, <<"c", "d">>, <<"c", "i">>,
      <<"c", "l", "i">>, <<"c", "p", "u">>, <<"c", "r", "m">>, <<"c", "s", "s">>,
      <<"c", "s", "v">>, <<"d", "e", "v", "o", "p", "s">>, <<"d", "n", "s">>, <<"e", "c", "2">>,
      <<"e", "r", "p">>, <<"f", "a", "i", "s", "s">>, <<"g", "c", "p">>, <<"g", "p", "u">>,
      <<"g", "r", "a", "p", "h", "q", "l">>, <<"g", "u", "i">>, <<"h", "d", "d">>,
      <<"h", "t", "m", "l">>, <<"h", "t", "t", "p">>, <<"h", "t", "t", "p", "s">>,
      <<"i", "s", "o">>, <<"i", "s", "o", " ", "2", "0", "0", "2", "2">>,
      <<"i", "s", "o", "2", "0", "0", "2", "2">>, <<"i", "t", "i", "l">>, <<"j", "s">>,
      <<"j", "s", "o", "n">>, <<"j", "w", "t">>, <<"k", "8", "s">>, <<"k", "p", "i">>,
      <<"l", "d", "a", "p">>, <<"l", "l", "m">>, <<"l", "o", "r", "a">>, <<"m", "f", "a">>,
      <<"m", "l">>, <<"n", "l", "p">>, <<"o", "a", "u", "t", "h">>, <<"o", "k", "r">>,
      <<"p", "r", "d">>, <<"q", "a">>, <<"r", "a", "g">>, <<"r", "a", "m">>,
      <<"r", "e", "s", "t">>, <<"s", "3">>, <<"s", "a", "m", "l">>, <<"s", "c", "m">>,
      <<"s", "d", "k">>, <<"s", "i", "t">>, <<"s", "i", "x", " ", "s", "i", "g", "m", "a">>,
      <<"s", "o", "a", "p">>, <<"s", "q", "l">>, <<"s", "s", "d">>, <<"s", "s", "l">>,
      <<"s", "s", "o">>, <<"s", "w", "i", "f", "t">>, <<"t", "c", "p">>, <<"t", "l", "s">>,
      <<"t", "s">>, <<"u", "a", "t">>, <<"u", "d", "p">>, <<"u", "i">>, <<"u", "x">>,
      <<"x", "m", "l">>, <<"y", "a", "m", "l">>
    }

\* one word of the text, formatted
format_word(word) ==
    IF Len(word) >= 2 /\ Len(word) <= 5 /\ str_lower(word) \in COMMON_ACRONYMS
    THEN (IF str_isupper(word) THEN word ELSE str_upper(str_lower(word)))
    ELSE IF str_isupper(word) /\ Len(word) > 5 THEN str_title(word)
    ELSE IF str_islower(word) THEN str_title(word)
    ELSE IF char_isupper(word[1]) /\ str_islower(Tail(word)) THEN word
    ELSE str_title(word)

\* SkillsDatabase._format_title_case
_format_title_case(text) ==
    IF text = <<>> THEN text
    ELSE IF dash_acronym(str_strip(text))
    THEN str_upper(SelectSeq(str_strip(text), LAMBDA ch : ch # "-"))
    ELSE LET words == str_split(separators_to_spaces(text))
         IN  str_join([i \in DOMAIN words |-> format_word(words[i])])

DISPLAY_NAME_MAP ==
    <<
      <<<<"t", "s">>, <<"T", "y", "p", "e", "S", "c", "r", "i", "p", "t">>>>,
      <<<<"t", "y", "p", "e", "s", "c", "r", "i", "p", "t">>, <<"T", "y", "p", "e", "S", "c", "r", "i", "p", "t">>>>,
      <<<<"n", "o", "d", "e">>, <<"N", "o", "d", "e", ".", "j", "s">>>>,
      <<<<"n", "o", "d", "e", "j", "s">>, <<"N", "o", "d", "e", ".", "j", "s">>>>,
      <<<<"n", "o", "d", "e", ".", "j", "s">>, <<"N", "o", "d", "e", ".", "j", "s">>>>,
      <<<<"n", "o", "d", "e", " ", "j", "s">>, <<"N", "o", "d", "e", ".", "j", "s">>>>,
      <<<<"j", "s">>, <<"J", "a", "v", "a", "S", "c", "r", "i", "p", "t">>>>,
      <<<<"j", "a", "v", "a", "s", "c", "r", "i", "p", "t">>, <<"J", "a", "v", "a", "S", "c", "r", "i", "p", "t">>>>,
      <<<<"e", "c", "m", "a", "s", "c", "r", "i", "p", "t">>, <<"J", "a", "v", "a", "S", "c", "r", "i", "p", "t">>>>,
      <<<<"p", "y">>, <<"P", "y", "t", "h", "o", "n">>>>,
      <<<<"p", "y", "t", "h", "o", "n">>, <<"P", "y", "t", "h", "o", "n">>>>,
      <<<<"p", "y", "t", "h", "o", "n", "3">>, <<"P", "y", "t", "h", "o", "n">>>>,
      <<<<"p", "y", "t", "h", "o", "n", " ", "3">>, <<"P", "y", "t", "h", "o", "n">>>>,
      <<<<"j", "a", "v", "a">>, <<"J", "a", "v", "a">>>>,
      <<<<"c", "#">>, <<"C", "#">>>>,
      <<<<"c", "s", "h", "a", "r", "p">>, <<"C", "#">>>>,
      <<<<"c", " ", "s", "h", "a", "r", "p">>, <<"C", "#">>>>,
      <<<<"c", "+", "+">>, <<"C", "+", "+">>>>,
      <<<<"c", "p", "p">>, <<"C", "+", "+">>>>,
      <<<<"c", " ", "p", "l", "u", "s", " ", "p", "l", "u", "s">>, <<"C", "+", "+">>>>,
      <<<<".", "n", "e", "t">>, <<".", "N", "E", "T">>>>,
      <<<<"d", "o", "t", "n", "e", "t">>, <<".", "N", "E", "T">>>>,
      <<<<".", "n", "e", "t", " ", "c", "o", "r", "e">>, <<".", "N", "E", "T", " ", "C", "o", "r", "e">>>>,
      <<<<"a", "s", "p", ".", "n", "e", "t">>, <<"A", "S", "P", ".", "N", "E", "T">>>>,
      <<<<"a", "s", "p", "n", "e", "t">>, <<"A", "S", "P", ".", "N", "E", "T">>>>,
      <<<<"r", "e", "a", "c", "t">>, <<"R", "e", "a", "c", "t">>>>,
      <<<<"r", "e", "a", "c", "t", ".", "j", "s">>, <<"R", "e", "a", "c", "t", ".", "j", "s">>>>,
      <<<<"r", "e", "a", "c", "t", "j", "s">>, <<"R", "e", "a", "c", "t", ".", "j", "s">>>>,
      <<<<"v", "u", "e">>, <<"V", "u", "e", ".", "j", "s">>>>,
      <<<<"v", "u", "e", ".", "j", "s">>, <<"V", "u", "e", ".", "j", "s">>>>,
      <<<<"v", "u", "e", "j", "s">>, <<"V", "u", "e", ".", "j", "s">>>>,
      <<<<"a", "n", "g", "u", "l", "a", "r">>, <<"A", "n", "g", "u", "l", "a", "r">>>>,
      <<<<"a", "n", "g", "u", "l", "a", "r", "j", "s">>, <<"A", "n", "g", "u", "l", "a", "r", "J", "S">>>>,
      <<<<"a", "n", "g", "u", "l", "a", "r", ".", "j", "s">>, <<"A", "n", "g", "u", "l", "a", "r", "J", "S">>>>,
      <<<<"s", "q", "l">>, <<"S", "Q", "L">>>>,
      <<<<"a", "w", "s">>, <<"A", "W", "S">>>>,
      <<<<"a", "m", "a", "z", "o", "n", " ", "w", "e", "b", " ", "s", "e", "r", "v", "i", "c", "e", "s">>, <<"A", "W", "S">>>>,
      <<<<"d", "o", "c", "k", "e", "r">>, <<"D", "o", "c", "k", "e", "r">>>>,
      <<<<"k", "u", "b", "e", "r", "n", "e", "t", "e", "s">>, <<"K", "u", "b", "e", "r", "n", "e", "t", "e", "s">>>>,
      <<<<"k", "8", "s">>, <<"K", "u", "b", "e", "r", "n", "e", "t", "e", "s">>>>,
      <<<<"k", "u", "b", "e">>, <<"K", "u", "b", "e", "r", "n", "e", "t", "e", "s">>>>,
      <<<<"g", "i", "t">>, <<"G", "i", "t">>>>,
      <<<<"g", "i", "t", "h", "u", "b">>, <<"G", "i", "t", "H", "u", "b">>>>,
      <<<<"r", "e", "s", "t">>, <<"R", "E", "S", "T", " ", "A", "P", "I">>>>,
      <<<<"r", "e", "s", "t", " ", "a", "p", "i">>, <<"R", "E", "S", "T", " ", "A", "P", "I">>>>,
      <<<<"r", "e", "s", "t", "f", "u", "l">>, <<"R", "E", "S", "T", " ", "A", "P", "I">>>>,
      <<<<"r", "e", "s", "t", "f", "u", "l", " ", "a", "p", "i">>, <<"R", "E", "S", "T", " ", "A", "P", "I">>>>,
      <<<<"g", "r", "a", "p", "h", "q", "l">>, <<"G", "r", "a", "p", "h", "Q", "L">>>>,
      <<<<"g", "r", "a", "p", "h", " ", "q", "l">>, <<"G", "r", "a", "p", "h", "Q", "L">>>>,
      <<<<"h", "t", "m", "l">>, <<"H", "T", "M", "L">>>>,
      <<<<"c", "s", "s">>, <<"C", "S", "S">>>>,
      <<<<"m", "y", "s", "q", "l">>, <<"M", "y", "S", "Q", "L">>>>,
      <<<<"p", "o", "s", "t", "g", "r", "e", "s", "q", "l">>, <<"P", "o", "s", "t", "g", "r", "e", "S", "Q", "L">>>>,
      <<<<"p", "o", "s", "t", "g", "r", "e", "s">>, <<"P", "o", "s", "t", "g", "r", "e", "S", "Q", "L">>>>,
      <<<<"m", "o", "n", "g", "o", "d", "b">>, <<"M", "o", "n", "g", "o", "D", "B">>>>,
      <<<<"m", "o", "n", "g", "o">>, <<"M", "o", "n", "g", "o", "D", "B">>>>,
      <<<<"r", "e", "d", "i", "s">>, <<"R", "e", "d", "i", "s">>>>,
      <<<<"o", "r", "a", "c", "l", "e">>, <<"O", "r", "a", "c", "l", "e">>>>,
      <<<<"n", "o", "s", "q", "l">>, <<"N", "o", "S", "Q", "L">>>>,
      <<<<"c", "h", "r", "o", "m", "a", "d", "b">>, <<"C", "h", "r", "o", "m", "a", "D", "B">>>>,
      <<<<"c", "h", "r", "o", "m", "a", " ", "d", "b">>, <<"C", "h", "r", "o", "m", "a", "D", "B">>>>,
      <<<<"p", "i", "n", "e", "c", "o", "n", "e">>, <<"P", "i", "n", "e", "c", "o", "n", "e">>>>,
      <<<<"w", "e", "a", "v", "i", "a", "t", "e">>, <<"W", "e", "a", "v", "i", "a", "t", "e">>>>,
      <<<<"f", "a", "i", "s", "s">>, <<"F", "A", "I", "S", "S">>>>,
      <<<<"o", "l", "l", "a", "m", "a">>, <<"O", "l", "l", "a", "m", "a">>>>,
      <<<<"v", "l", "l", "m">>, <<"v", "L", "L", "M">>>>,
      <<<<"h", "u", "g", "g", "i", "n", "g", " ", "f", "a", "c", "e", " ", "t", "r", "a", "n", "s", "f", "o", "r", "m", "e", "r", "s">>, <<"H", "u", "g", "g", "i", "n", "g", " ", "F", "a", "c", "e", " ", "T", "r", "a", "n", "s", "f", "o", "r", "m", "e", "r", "s">>>>,
      <<<<"h", "u", "g", "g", "i", "n", "g", "f", "a", "c", "e", " ", "t", "r", "a", "n", "s", "f", "o", "r", "m", "e", "r", "s">>, <<"H", "u", "g", "g", "i", "n", "g", " ", "F", "a", "c", "e", " ", "T", "r", "a", "n", "s", "f", "o", "r", "m", "e", "r", "s">>>>,
      <<<<"h", "u", "g", "g", "i", "n", "g", "f", "a", "c", "e">>, <<"H", "u", "g", "g", "i", "n", "g", " ", "F", "a", "c", "e">>>>,
      <<<<"l", "a", "r", "g", "e", " ", "l", "a", "n", "g", "u", "a", "g", "e", " ", "m", "o", "d", "e", "l", "s">>, <<"L", "a", "r", "g", "e", " ", "L", "a", "n", "g", "u", "a", "g", "e", " ", "M", "o", "d", "e", "l", "s">>>>,
      <<<<"l", "l", "m">>, <<"L", "L", "M">>>>,
      <<<<"l", "l", "m", "s">>, <<"L", "L", "M", "s">>>>,
      <<<<"g", "e", "n", "e", "r", "a", "t", "i", "v", "e", " ", "a", "i">>, <<"G", "e", "n", "e", "r", "a", "t", "i", "v", "e", " ", "A", "I">>>>,
      <<<<"p", "r", "o", "m", "p", "t", " ", "e", "n", "g", "i", "n", "e", "e", "r", "i", "n", "g">>, <<"P", "r", "o", "m", "p", "t", " ", "E", "n", "g", "i", "n", "e", "e", "r", "i", "n", "g">>>>,
      <<<<"l", "a", "n", "g", "c", "h", "a", "i", "n">>, <<"L", "a", "n", "g", "C", "h", "a", "i", "n">>>>,
      <<<<"r", "a", "g", " ", "r", "e", "t", "r", "i", "e", "v", "a", "l", " ", "a", "u", "g", "m", "e", "n", "t", "e", "d", " ", "g", "e", "n", "e", "r", "a", "t", "i", "o", "n">>, <<"R", "A", "G", " ", "(", "R", "e", "t", "r", "i", "e", "v", "a", "l", " ", "A", "u", "g", "m", "e", "n", "t", "e", "d", " ", "G", "e", "n", "e", "r", "a", "t", "i", "o", "n", ")">>>>,
      <<<<"r", "a", "g">>, <<"R", "A", "G">>>>,
      <<<<"v", "e", "c", "t", "o", "r", " ", "d", "a", "t", "a", "b", "a", "s", "e", "s">>, <<"V", "e", "c", "t", "o", "r", " ", "D", "a", "t", "a", "b", "a", "s", "e", "s">>>>,
      <<<<"e", "m", "b", "e", "d", "d", "i", "n", "g", "s">>, <<"E", "m", "b", "e", "d", "d", "i", "n", "g", "s">>>>,
      <<<<"s", "e", "m", "a", "n", "t", "i", "c", " ", "s", "e", "a", "r", "c", "h">>, <<"S", "e", "m", "a", "n", "t", "i", "c", " ", "S", "e", "a", "r", "c", "h">>>>,
      <<<<"t", "o", "k", "e", "n", "i", "z", "a", "t", "i", "o", "n">>, <<"T", "o", "k", "e", "n", "i", "z", "a", "t", "i", "o", "n">>>>,
      <<<<"f", "i", "n", "e", " ", "t", "u", "n", "i", "n", "g">>, <<"F", "i", "n", "e", " ", "T", "u", "n", "i", "n", "g">>>>,
      <<<<"i", "n", "f", "e", "r", "e", "n", "c", "e", " ", "o", "p", "t", "i", "m", "i", "z", "a", "t", "i", "o", "n">>, <<"I", "n", "f", "e", "r", "e", "n", "c", "e", " ", "O", "p", "t", "i", "m", "i", "z", "a", "t", "i", "o", "n">>>>,
      <<<<"o", "p", "e", "n", "a", "i", " ", "a", "p", "i">>, <<"O", "p", "e", "n", "A", "I", " ", "A", "P", "I">>>>,
      <<<<"o", "p", "e", "n", "a", "i">>, <<"O", "p", "e", "n", "A", "I">>>>,
      <<<<"l", "o", "r", "a">>, <<"L", "o", "R", "A">>>>,
      <<<<"q", "u", "a", "n", "t", "i", "z", "a", "t", "i", "o", "n">>, <<"Q", "u", "a", "n", "t", "i", "z", "a", "t", "i", "o", "n">>>>,
      <<<<"m", "o", "d", "e", "l", " ", "s", "e", "r", "v", "i", "n", "g">>, <<"M", "o", "d", "e", "l", " ", "S", "e", "r", "v", "i", "n", "g">>>>,
      <<<<"c", "o", "n", "t", "e", "x", "t", " ", "w", "i", "n", "d", "o", "w", " ", "m", "a", "n", "a", "g", "e", "m", "e", "n", "t">>, <<"C", "o", "n", "t", "e", "x", "t", " ", "W", "i", "n", "d", "o", "w", " ", "M", "a", "n", "a", "g", "e", "m", "e", "n", "t">>>>,
      <<<<"a", "i", " ", "a", "g", "e", "n", "t", "s">>, <<"A", "I", " ", "A", "g", "e", "n", "t", "s">>>>,
      <<<<"t", "o", "o", "l", " ", "c", "a", "l", "l", "i", "n", "g">>, <<"T", "o", "o", "l", " ", "C", "a", "l", "l", "i", "n", "g">>>>,
      <<<<"e", "v", "a", "l", "u", "a", "t", "i", "o", "n", " ", "o", "f", " ", "l", "l", "m", "s">>, <<"E", "v", "a", "l", "u", "a", "t", "i", "o", "n", " ", "o", "f", " ", "L", "L", "M", "s">>>>,
      <<<<"f", "a", "s", "t", "a", "p", "i">>, <<"F", "a", "s", "t", "A", "P", "I">>>>,
      <<<<"g", "o">>, <<"G", "o">>>>,
      <<<<"r", "u", "s", "t">>, <<"R", "u", "s", "t">>>>,
      <<<<"k", "o", "t", "l", "i", "n">>, <<"K", "o", "t", "l", "i", "n">>>>,
      <<<<"s", "w", "i", "f", "t">>, <<"S", "w", "i", "f", "t">>>>,
      <<<<"s", "c", "a", "l", "a">>, <<"S", "c", "a", "l", "a">>>>,
      <<<<"r", "u", "b", "y">>, <<"R", "u", "b", "y">>>>,
      <<<<"p", "h", "p">>, <<"P", "H", "P">>>>,
      <<<<"r">>, <<"R">>>>
    >>

\* DISPLAY_NAME_MAP[key]
display_name(key) ==
    DISPLAY_NAME_MAP[CHOOSE i \in DOMAIN DISPLAY_NAME_MAP : DISPLAY_NAME_MAP[i][1] = key][2]

in_display_map(key) == \E i \in DOMAIN DISPLAY_NAME_MAP : DISPLAY_NAME_MAP[i][1] = key

\* SkillsDatabase.normalize_skill_display
normalize_skill_display(db, skill) ==
    LET skill_lower == str_strip(str_lower(skill))
        canonical_skill == get_canonical_skill(db, skill)
    IN  IF skill = <<>> THEN skill
        ELSE IF in_display_map(skill_lower) THEN display_name(skill_lower)
        ELSE IF canonical_skill # <<>> /\ canonical_skill[1] # <<>>
        THEN (IF in_display_map(str_lower(canonical_skill[1]))
              THEN display_name(str_lower(canonical_skill[1]))
              ELSE _format_title_case(canonical_skill[1]))
        ELSE _format_title_case(skill)

----------------------------------------------------------------------------

\* "First pass: Count occurrences and collect spans for each skill";
\* matched_skills_data is held in the insertion order of the dict
RECURSIVE first_pass(_, _, _)
first_pass(doc_, matches_, data) ==
    IF matches_ = <<>> THEN data
    ELSE LET span == Head(matches_)
             matched_text == str_strip(span_text(doc_, span[1], span[2]))
             matched_lower == str_lower(matched_text)
             data1 == IF \E i \in DOMAIN data : data[i].key = matched_lower
                      THEN data
                      ELSE Append(data, [key |-> matched_lower, text |-> matched_text,
                                         frequency |-> 0, spans |-> <<>>])
             data2 == [i \in DOMAIN data1 |->
                          IF data1[i].key = matched_lower
                          THEN [data1[i] EXCEPT !.frequency = @ + 1,
                                                !.spans = Append(@, span)]
                          ELSE data1[i]]
         IN  first_pass(doc_, Tail(matches_), data2)

\* the four tests of the registry made for one candidate
in_custom_registry(db, matched_text, matched_lower) ==
    \/ is_custom_keyword(db, matched_text)
    \/ is_custom_keyword(db, matched_lower)
    \/ is_custom_keyword(db, str_title(matched_text))
    \/ _normalize(matched_lower) \in db.custom_keywords_normalized

\* a second pass that takes as custom only what the batch step recorded
is_custom_recorded(db, custom_set, matched_text, matched_lower) ==
    matched_text \in custom_set \/ matched_lower \in custom_set

\* is_custom of the second pass: recorded by the batch step, or found by the
\* tests of the registry
is_custom_candidate(db, custom_set, matched_text, matched_lower) ==
    \/ matched_text \in custom_set
    \/ matched_lower \in custom_set
    \/ in_custom_registry(db, matched_text, matched_lower)

\* threshold=0.10
ExtractionThreshold == 10

\* a boost that counts the first occurrence too
frequency_boost_from_first(frequency) ==
    min2((frequency * WeightUnit) \div 2, 2 * WeightUnit)

\* a boost without the cap
frequency_boost_uncapped(frequency) ==
    ((frequency - 1) * WeightUnit) \div 2

\* frequency_boost = min((frequency - 1) * 0.5, 2.0), in halves
frequency_boost(frequency) ==
    min2(((frequency - 1) * WeightUnit) \div 2, 2 * WeightUnit)

\* boosted_weight = float(weight) + frequency_boost
boosted_weight(weight, frequency) == weight + frequency_boost(frequency)

\* a zero looked-up weight replaced by the framework weight
validated_weight_zero_as_framework(found, c, is_technical, looked_up) ==
    IF ~found
    THEN (IF c.available /\ is_technical THEN 2 * WeightUnit ELSE 1 * WeightUnit)
    ELSE IF looked_up = 0 THEN 2 * WeightUnit
    ELSE looked_up

\* weight of a candidate that has no zero looked-up weight or is technical:
\* "not in database" 2.0 / 1.0, the looked-up weight, or 1.0 for weight 0
validated_weight(found, c, is_technical, looked_up) ==
    IF ~found
    THEN (IF c.available /\ is_technical THEN 2 * WeightUnit ELSE 1 * WeightUnit)
    ELSE IF looked_up = 0 THEN 1 * WeightUnit
    ELSE looked_up

\* a context filter that takes no account of the classifier's verdict
context_rejects_technical_too(use_context_filter, is_custom, has_context, is_technical) ==
    use_context_filter /\ ~is_custom /\ ~has_context

\* "Context Filtering (Option 2)": the candidate is dropped at the context step
context_rejects(use_context_filter, is_custom, has_context, is_technical) ==
    use_context_filter /\ ~is_custom /\ ~has_context /\ ~is_technical

\* a rule path that consults the garbage list before the type gate
rule_path_garbage_first(matched_text) ==
    IF is_garbage_skill(matched_text) THEN "garbage"
    ELSE IF ~is_valid_skill_type(matched_text) THEN "type"
    ELSE IF ~is_specific_enough(matched_text) THEN "specificity"
    ELSE IF is_low_priority(matched_text) THEN "low_priority"
    ELSE "passed"

\* the rule-based filters, steps 1 to 4: the first that rejects the candidate
rule_path(matched_text) ==
    IF ~is_valid_skill_type(matched_text) THEN "type"
    ELSE IF ~is_specific_enough(matched_text) THEN "specificity"
    ELSE IF is_garbage_skill(matched_text) THEN "garbage"
    ELSE IF is_low_priority(matched_text) THEN "low_priority"
    ELSE "passed"

\* One iteration of the second pass: what becomes of the candidate (outcome) and
\* the tuple appended to results when it is emitted
validate(db, c, doc_, use_context_filter, technical_set, custom_set, entry) ==
    LET matched_text == entry.text
        matched_lower == entry.key
        span == entry.spans[1]
        is_custom == is_custom_candidate(db, custom_set, matched_text, matched_lower)
        technical_skills_lower_set == {str_lower(s) : s \in technical_set}
        is_technical == /\ c.available
                        /\ \/ matched_text \in technical_set
                           \/ matched_lower \in technical_skills_lower_set
        rule_based == ~c.available /\ ~is_custom
        found == _get_canonical(matched_lower) # <<>>
        canonical == IF found THEN _get_canonical(matched_lower) ELSE matched_text
        looked_up == get_weight(matched_text)
        weight == validated_weight(found, c, is_technical, looked_up)
        canonical_skill == get_canonical_skill(db, matched_text)
        skill_name == IF canonical_skill # <<>> /\ canonical_skill[1] # <<>>
                      THEN canonical_skill[1] ELSE matched_text
        outcome ==
            IF c.available /\ ~is_custom /\ ~is_technical THEN "classifier"
            ELSE IF context_rejects(use_context_filter, is_custom,
                                    has_skill_context(span, doc_), is_technical)
            THEN "context"
            ELSE IF rule_based /\ rule_path(matched_text) # "passed"
            THEN rule_path(matched_text)
            ELSE IF found /\ looked_up = 0 /\ ~(c.available /\ is_technical)
            THEN "zero_weight"
            ELSE "emitted"
    IN  [text |-> matched_text, frequency |-> entry.frequency,
         is_custom |-> is_custom, is_technical |-> is_technical,
         found |-> found, looked_up |-> looked_up, weight |-> weight,
         outcome |-> outcome,
         result |-> <<skill_name, canonical, boosted_weight(weight, entry.frequency)>>]

\* "Store with boosted weight", then collapse_overlapping_skills: the value of
\* the locals when the function returns and the list returned (ret)
extraction_result(data, classified, decided, results_) ==
    [matched_skills_data |-> data,
     technical_skills_set |-> classified.ret,
     second_pass |-> decided,
     results |-> results_,
     ret |-> collapse_overlapping_skills(results_),
     classifier |-> classified.classifier]

\* the tuples of the candidates the second pass emitted, in its order
emitted_results(decided) ==
    LET emitted == SelectSeq(decided, LAMBDA v : v.outcome = "emitted")
    IN  [i \in DOMAIN emitted |-> emitted[i].result]

\* "Second pass: Process each unique skill with frequency information"
second_pass_of(data, db, c, doc_, use_context_filter, classified, custom_keywords_set) ==
    [i \in DOMAIN data |->
        validate(db, c, doc_, use_context_filter, classified.ret, custom_keywords_set,
                 data[i])]

\* "Batch classify all unique skills at once": the candidates outside the
\* registry, at threshold 0.10
classify_candidates(c, skills_to_classify) ==
    IF skills_to_classify # <<>>
    THEN batch_classify_skills(c, skills_to_classify, ExtractionThreshold, DefaultBatchSize)
    ELSE [ret |-> {}, classifier |-> c]

\* skills_to_classify
texts_to_classify(data, db, c) ==
    LET others == SelectSeq(data, LAMBDA e : ~in_custom_registry(db, e.text, e.key))
    IN  IF c.available /\ data # <<>>
        THEN [i \in DOMAIN others |-> others[i].text]
        ELSE <<>>

\* custom_keywords_set
custom_texts(data, db, c) ==
    IF c.available /\ data # <<>>
    THEN UNION {{e.text, e.key} : e \in {x \in Range(data) :
                                            in_custom_registry(db, x.text, x.key)}}
    ELSE {}

\* the function from the second pass on
extract_classified(data, db, c, doc_, use_context_filter, classified) ==
    LET decided == second_pass_of(data, db, c, doc_, use_context_filter, classified,
                                  custom_texts(data, db, c))
    IN  extraction_result(data, classified, decided, emitted_results(decided))

\* the function from the batch classification on
extract_matched(data, db, c, doc_, use_context_filter) ==
    extract_classified(data, db, c, doc_, use_context_filter,
                       classify_candidates(c, texts_to_classify(data, db, c)))

\* the function from the first pass on
extract_from_doc(doc_, db, c, use_context_filter) ==
    extract_matched(first_pass(doc_, matcher(doc_, db.skills), <<>>), db, c, doc_,
                    use_context_filter)

\* extract_skills_with_phrasematcher(text, nlp_model, skills_db, use_fuzzy,
\* use_context_filter) on a loaded database
extract_skills_with_phrasematcher(text, db, c, use_context_filter) ==
    extract_from_doc(preprocess(text), db, c, use_context_filter)

----------------------------------------------------------------------------
(* _extract_skills_internal: unique canonicals, sorted                     *)

\* "if canonical not in seen_canonicals"
RECURSIVE unique_canonicals(_, _)
unique_canonicals(matches_, seen_canonicals) ==
    IF matches_ = <<>> THEN <<>>
    ELSE IF Head(matches_)[2] \in seen_canonicals
    THEN unique_canonicals(Tail(matches_), seen_canonicals)
    ELSE <<Head(matches_)>>
         \o unique_canonicals(Tail(matches_), seen_canonicals \cup {Head(matches_)[2]})

\* key=lambda x: (-x[2], x[0].lower())
tuple_key_less(x, y) ==
    \/ x[3] > y[3]
    \/ x[3] = y[3] /\ str_less(str_lower(x[1]), str_lower(y[1]))

RECURSIVE insert_by_tuple_key(_, _)
insert_by_tuple_key(e, s) ==
    IF s = <<>> THEN <<e>>
    ELSE IF tuple_key_less(e, Head(s)) THEN <<e>> \o s
    ELSE <<Head(s)>> \o insert_by_tuple_key(e, Tail(s))

\* skill_tuples.sort(key=...): stable
RECURSIVE sorted_by_tuple_key(_)
sorted_by_tuple_key(s) ==
    IF s = <<>> THEN <<>>
    ELSE insert_by_tuple_key(s[Len(s)], sorted_by_tuple_key(SubSeq(s, 1, Len(s) - 1)))

unique_sorted_tuples(matches_) == sorted_by_tuple_key(unique_canonicals(matches_, {}))

\* normalized_matches: a SkillMatch with the display name for each tuple
normalized_matches(db, tuples) ==
    [i \in DOMAIN tuples |->
        [skill |-> normalize_skill_display(db, tuples[i][1]),
         canonical |-> tuples[i][2],
         weight |-> tuples[i][3]]]

----------------------------------------------------------------------------
(* _extract_skills_internal: the three tier lists of the response          *)

NoTiers == [important_skills |-> <<>>, less_important_skills |-> <<>>,
            non_technical_skills |-> <<>>]

\* list.append on the list the tier names
append_to_tier(lists, tier, name) ==
    IF tier = "important"
    THEN [lists EXCEPT !.important_skills = Append(@, name)]
    ELSE IF tier = "less_important"
    THEN [lists EXCEPT !.less_important_skills = Append(@, name)]
    ELSE [lists EXCEPT !.non_technical_skills = Append(@, name)]

\* a loop body whose blacklist branch does not end with continue: the skill is
\* appended there and again by the weight
categorize_one_without_continue(c, db, tuple, lists) ==
    LET normalized_skill == normalize_skill_display(db, tuple[1])
        first == append_to_tier(lists,
                                service_tier(c, normalized_skill, tuple[1], tuple[3]),
                                normalized_skill)
    IN  IF is_blacklisted_skill(normalized_skill) \/ is_blacklisted_skill(tuple[1])
        THEN append_to_tier(first, weight_based_tier(tuple[3]), normalized_skill)
        ELSE first

\* one pass of "for skill, canonical, weight in skill_tuples": the display name
\* is appended to one list
categorize_one(c, db, tuple, lists) ==
    LET normalized_skill == normalize_skill_display(db, tuple[1])
    IN  append_to_tier(lists, service_tier(c, normalized_skill, tuple[1], tuple[3]),
                       normalized_skill)

RECURSIVE categorize(_, _, _, _)
categorize(c, db, tuples, lists) ==
    IF tuples = <<>> THEN lists
    ELSE categorize(c, db, Tail(tuples), categorize_one(c, db, Head(tuples), lists))

\* the names the final filter sends to non_technical_skills
FinalFilterNonTechnical ==
    { <<"c", "o", "m", "p", "u", "t", "e", "r", " ", "s", "c", "i", "e", "n", "c", "e">>,
      <<"c", "s">>,
      <<"i", "n", "f", "o", "r", "m", "a", "t", "i", "o", "n", " ", "t", "e", "c", "h", "n", "o", "l", "o", "g", "y">>,
      <<"i", "t">> }

\* "Final filter: Remove any blacklisted items from important_skills": what is
\* left of important, with the removed names appended to the other two lists
RECURSIVE final_filter(_, _)
final_filter(important, lists) ==
    IF important = <<>> THEN lists
    ELSE LET skill == Head(important)
         IN  IF ~is_blacklisted_skill(skill)
             THEN final_filter(Tail(important),
                               [lists EXCEPT !.important_skills = Append(@, skill)])
             ELSE IF str_strip(str_lower(skill)) \in FinalFilterNonTechnical
             THEN final_filter(Tail(important),
                               [lists EXCEPT !.non_technical_skills = Append(@, skill)])
             ELSE final_filter(Tail(important),
                               [lists EXCEPT !.less_important_skills = Append(@, skill)])

\* the tier lists of the response for skill_tuples
tier_lists(c, db, tuples) ==
    LET lists == categorize(c, db, tuples, NoTiers)
    IN  final_filter(lists.important_skills, [lists EXCEPT !.important_skills = <<>>])

\* normalized_skills: the display name of every tuple
normalized_skills(db, tuples) ==
    [i \in DOMAIN tuples |-> normalize_skill_display(db, tuples[i][1])]

----------------------------------------------------------------------------
(* Bounds and inputs                                                       *)

\* longest list of candidates handed to collapse_overlapping_skills
MaxSkills == 3

\* most classifications the counters of the classifier record
MaxClassifications == 3

\* longest list handed to batch_classify_skills
MaxBatchList == 2

\* largest batch_size
MaxBatchSize == 2

CollapseNames == {S_Java, S_Spring, S_SpringBoot, S_SpringMVC}
CollapseWeights == {1 * WeightUnit, 2 * WeightUnit}

\* parent -> child edges an ontology file may list
CandidateEdges ==
    { <<s_java, S_Spring>>, <<s_spring, S_SpringBoot>>,
      <<s_spring, S_SpringMVC>>, <<s_java, S_SpringBoot>> }

parents_in(E, name) == SelectSeq(<<s_java, s_spring>>, LAMBDA p : <<p, name>> \in E)

\* the ontology file that lists the edges E
OntologyWithEdges(E) ==
    << OntologyEntry(S_Java, T_language, <<3>>, <<>>, <<>>),
       OntologyEntry(S_Spring, T_framework, <<2>>, parents_in(E, S_Spring), <<>>),
       OntologyEntry(S_SpringBoot, T_framework, <<2>>, parents_in(E, S_SpringBoot), <<>>),
       OntologyEntry(S_SpringMVC, T_framework, <<2>>, parents_in(E, S_SpringMVC), <<>>) >>

CollapseEntries == {<<n, _normalize(n), w>> : n \in CollapseNames, w \in CollapseWeights}

RECURSIVE SeqsUpTo(_, _)
SeqsUpTo(S, n) ==
    IF n = 0 THEN {<<>>}
    ELSE LET shorter == SeqsUpTo(S, n - 1)
         IN  shorter \cup {Append(q, e) : q \in {r \in shorter : Len(r) = n - 1}, e \in S}

\* similarities (hundredths) the exemplar sets may give a phrase: around the
\* minimum similarity 0.30 and with differences around the thresholds
SimGrid == {0, 20, 30, 31, 40, 41, 46, 56}

\* threshold arguments: 0.10 (extraction), 0.15 (the default, vocabulary load)
Thresholds == {10, DefaultThreshold}

EncodeOutcomes == {"ok", "broken_pipe", "error"}

\* what encode and the exemplar sets give one phrase; when encode raises there
\* are no similarities (held as 0)
EncoderResults ==
    [outcome : {"ok"}, important : SimGrid, less_important : SimGrid, non_tech : SimGrid]
    \cup [outcome : EncodeOutcomes \ {"ok"}, important : {0}, less_important : {0},
          non_tech : {0}]

\* a technical phrase, a non-technical one, one technical at 0.10 only, and the
\* two ways encode fails
CoarseResults ==
    { [outcome |-> "ok", important |-> 56, less_important |-> 20, non_tech |-> 0],
      [outcome |-> "ok", important |-> 20, less_important |-> 20, non_tech |-> 40],
      [outcome |-> "ok", important |-> 31, less_important |-> 46, non_tech |-> 31],
      [outcome |-> "broken_pipe", important |-> 0, less_important |-> 0, non_tech |-> 0],
      [outcome |-> "error", important |-> 0, less_important |-> 0, non_tech |-> 0] }

BatchPhrases == {S_Kafka, S_Coding}

ServiceWeights == {0, 1 * WeightUnit, 2 * WeightUnit}

NoCall == [op |-> "none"]
NoReturn == "none"

----------------------------------------------------------------------------
(* The classifier and the tier assignment on their own                     *)

\* nothing loaded, no request
NoExtraction ==
    /\ custom_keywords = <<>>
    /\ skills_db = DatabaseNotLoaded
    /\ request = [text |-> <<>>, use_context_filter |-> TRUE]
    /\ matched_skills_data = <<>>
    /\ technical_skills_set = {}
    /\ second_pass = <<>>
    /\ skill_tuples = <<>>

\* one phrase, every outcome of the grid
InitClassify ==
    /\ skill_lookup = <<>>
    /\ parent_map = <<>>
    /\ classifier \in {ClassifierLoaded, ClassifierUnavailable}
    /\ \E p \in {S_Kafka, S_Coding}, e \in EncoderResults : encoder = (p :> e)
    /\ call = NoCall
    /\ ret = NoReturn
    /\ category = NoCategory
    /\ results = <<>>
    /\ matches = <<>>
    /\ NoExtraction
    /\ pc = "idle"
    /\ _skills_db = None
    /\ load_runs = 0

\* several phrases, representative outcomes, any sequence of calls
InitBatch ==
    /\ skill_lookup = <<>>
    /\ parent_map = <<>>
    /\ classifier \in {ClassifierLoaded, ClassifierUnavailable}
    /\ encoder \in [BatchPhrases -> CoarseResults]
    /\ call = NoCall
    /\ ret = NoReturn
    /\ category = NoCategory
    /\ results = <<>>
    /\ matches = <<>>
    /\ NoExtraction
    /\ pc = "idle"
    /\ _skills_db = None
    /\ load_runs = 0

\* classifier.is_technical_skill(skill, threshold)
IsTechnicalSkill ==
    \E skill \in DOMAIN encoder, threshold \in Thresholds :
        LET r == is_technical_skill(classifier, skill, threshold)
        IN  /\ pc = "idle"
            /\ classifier.classification_count + 1 <= MaxClassifications
            /\ classifier' = r.classifier
            /\ ret' = r.ret
            /\ category' = r.category
            /\ call' = [op |-> "is_technical_skill", skill |-> skill,
                        threshold |-> threshold]
            /\ UNCHANGED process_vars
            /\ UNCHANGED <<skill_lookup, parent_map, encoder, results, matches, extraction_vars, pc>>

\* classifier.batch_classify_skills(skills, threshold, batch_size)
BatchClassifySkills ==
    \E skills_ \in SeqsUpTo(DOMAIN encoder, MaxBatchList), threshold \in Thresholds,
       batch_size \in 1..MaxBatchSize :
        LET r == batch_classify_skills(classifier, skills_, threshold, batch_size)
        IN  /\ pc = "idle"
            /\ classifier.classification_count + Len(skills_) <= MaxClassifications
            /\ classifier' = r.classifier
            /\ ret' = r.ret
            /\ category' = NoCategory
            /\ call' = [op |-> "batch_classify_skills", skills |-> skills_,
                        threshold |-> threshold, batch_size |-> batch_size]
            /\ UNCHANGED process_vars
            /\ UNCHANGED <<skill_lookup, parent_map, encoder, results, matches, extraction_vars, pc>>

\* _extract_skills_internal: one (skill, canonical, weight) is put in a tier list
AssignTier ==
    \E skill \in DOMAIN encoder, weight \in ServiceWeights :
        /\ pc = "idle"
        /\ ret' = service_tier(classifier, skill, skill, weight)
        /\ category' = NoCategory
        /\ call' = [op |-> "assign_tier", skill |-> skill, weight |-> weight]
        /\ UNCHANGED process_vars
        /\ UNCHANGED <<skill_lookup, parent_map, classifier, encoder, results, matches,
                     extraction_vars, pc>>

NextClassify == IsTechnicalSkill \/ BatchClassifySkills \/ AssignTier

\* one call on every state of the provider
NextClassifyOnce ==
    \/ call = NoCall /\ IsTechnicalSkill
    \/ call = NoCall /\ BatchClassifySkills
    \/ call = NoCall /\ AssignTier

SpecClassify == InitClassify /\ [][NextClassifyOnce]_vars

SpecBatch == InitBatch /\ [][NextClassify]_vars

----------------------------------------------------------------------------
(* Overlap resolution on its own: any list of candidates, any listed hierarchy *)

InitCollapse ==
    /\ \E E \in SUBSET CandidateEdges :
          /\ skill_lookup = ontology_skill_lookup(OntologyWithEdges(E))
          /\ parent_map = ontology_parent_map(OntologyWithEdges(E))
    /\ classifier = ClassifierUnavailable
    /\ encoder = <<>>
    /\ call = NoCall
    /\ ret = NoReturn
    /\ category = NoCategory
    /\ results \in SeqsUpTo(CollapseEntries, MaxSkills)
    /\ matches = <<>>
    /\ NoExtraction
    /\ pc = "validated"
    /\ _skills_db = None
    /\ load_runs = 0

\* results = collapse_overlapping_skills(results, skills_db)
Collapse ==
    /\ pc = "validated"
    /\ matches' = collapse_overlapping_skills(results)
    /\ pc' = "collapsed"
    /\ UNCHANGED process_vars
    /\ UNCHANGED <<skill_lookup, parent_map, classifier, encoder, call, ret, category,
                   results, extraction_vars>>

NextCollapse == Collapse

SpecCollapse == InitCollapse /\ [][NextCollapse]_vars

----------------------------------------------------------------------------
(* The overlap resolver on a list and on the same list in another order    *)

\* longest list given in two orders
MaxReordered == 4

\* candidates with equal and with different sort keys: names that differ in
\* case only, one name with two canonical forms, two weights
ReorderEntries ==
    << <<S_Java, _normalize(S_Java), 1 * WeightUnit>>,
       <<S_Spring, _normalize(S_Spring), 1 * WeightUnit>>,
       <<s_spring, _normalize(s_spring), 1 * WeightUnit>>,
       <<S_SpringBoot, _normalize(S_SpringBoot), 1 * WeightUnit>>,
       <<S_SpringBoot, s_spring_boot, 1 * WeightUnit>>,
       <<S_SpringMVC, _normalize(S_SpringMVC), 1 * WeightUnit>>,
       <<S_Spring, _normalize(S_Spring), 2 * WeightUnit>> >>

\* the lists of n candidates, one order of each
ReorderLists(n) ==
    { [i \in 1..n |-> ReorderEntries[f[i]]] :
        f \in {h \in [1..n -> DOMAIN ReorderEntries] :
                  \A i \in 1..n : \A j \in 1..n : i <= j => h[i] <= h[j]} }

\* every order of a list
orderings(list) ==
    { [i \in DOMAIN list |-> list[f[i]]] : f \in Permutations(DOMAIN list) }

InitReorder ==
    /\ \E E \in SUBSET CandidateEdges :
          /\ skill_lookup = ontology_skill_lookup(OntologyWithEdges(E))
          /\ parent_map = ontology_parent_map(OntologyWithEdges(E))
    /\ classifier = ClassifierUnavailable
    /\ encoder = <<>>
    /\ call = NoCall
    /\ ret = NoReturn
    /\ category = NoCategory
    /\ \E n \in 0..MaxReordered : results \in ReorderLists(n)
    /\ matches = <<>>
    /\ NoExtraction
    /\ pc = "validated"
    /\ _skills_db = None
    /\ load_runs = 0

\* collapse_overlapping_skills(results, skills_db), and the same call on the
\* same candidates in another order
CollapseReordered ==
    /\ pc = "validated"
    /\ \E other \in orderings(results) :
          /\ call' = [op |-> "collapse_overlapping_skills", skills |-> other]
          /\ ret' = collapse_overlapping_skills(other)
    /\ matches' = collapse_overlapping_skills(results)
    /\ pc' = "collapsed"
    /\ UNCHANGED process_vars
    /\ UNCHANGED <<skill_lookup, parent_map, classifier, encoder, category, results,
                   extraction_vars>>

NextReorder == CollapseReordered

SpecReorder == InitReorder /\ [][NextReorder]_vars

----------------------------------------------------------------------------
(* _normalize on its own                                                   *)

\* longest text normalized
MaxNormalized == 4

\* a letter in both cases, punctuation, and the Kelvin sign
NormalizeAlphabet == {"C", "c", "+", ".", KelvinSign}

\* "c++"
s_cpp == <<"c", "+", "+">>

\* the texts compared with the text normalized
OtherTexts == SeqsUpTo(NormalizeAlphabet, 2) \cup {s_cpp}

InitNormalize ==
    /\ skill_lookup = <<>>
    /\ parent_map = <<>>
    /\ classifier = ClassifierUnavailable
    /\ encoder = <<>>
    /\ call \in [op : {"_normalize"},
                 text : SeqsUpTo(NormalizeAlphabet, MaxNormalized),
                 other : OtherTexts]
    /\ ret = NoReturn
    /\ category = NoCategory
    /\ results = <<>>
    /\ matches = <<>>
    /\ NoExtraction
    /\ pc = "start"
    /\ _skills_db = None
    /\ load_runs = 0

\* self._normalize(text), self._normalize of its result, self._normalize(other)
Normalize ==
    /\ pc = "start"
    /\ call.op = "_normalize"
    /\ ret' = [text |-> _normalize(call.text),
               again |-> _normalize(_normalize(call.text)),
               other |-> _normalize(call.other)]
    /\ pc' = "normalized"
    /\ UNCHANGED process_vars
    /\ UNCHANGED <<skill_lookup, parent_map, classifier, encoder, call, category,
                   results, matches, extraction_vars>>

NextNormalize == Normalize

SpecNormalize == InitNormalize /\ [][NextNormalize]_vars

----------------------------------------------------------------------------
(* Load, extraction and de-duplication of one request                      *)

\* most repetitions of one phrase in a text
MaxRepeat == 6

\* rows of the skills CSV
CsvSkills ==
    <<S_Java, S_Spring, S_SpringBoot, S_SQL, S_Python, S_Kafka, S_Coding, S_PlusPlus,
      S_Jest, s_js>>

\* custom_keywords.json as load_custom_keywords returns it: no keyword, or one
\* keyword object with its variations
CustomKeywordFiles ==
    { <<>>,
      load_custom_keywords(<<[base |-> S_Sales, variations |-> <<>>]>>),
      load_custom_keywords(<<[base |-> S_Spring, variations |-> <<>>]>>) }

\* skill_ontology.json with java (3), spring (2, parent of spring boot),
\* spring boot (2), sql (3)
OntologyJavaSpring ==
    << OntologyEntry(s_java, T_language, <<3>>, <<>>, <<>>),
       OntologyEntry(s_spring, T_framework, <<2>>, <<>>, <<>>),
       OntologyEntry(s_spring_boot, T_framework, <<2>>, <<s_spring>>, <<>>),
       OntologyEntry(s_sql, T_language, <<3>>, <<>>, <<>>) >>

\* skill_ontology.json: no file, or the file above
OntologyFiles == {<<>>, OntologyJavaSpring}

Word(text, ws, lemma, pos) == Token(text, ws, lemma, pos, "")

\* "Must have skills: Java, Spring Boot, Spring, SQL"
TextMustHave ==
    << Word(<<"M", "u", "s", "t">>, TRUE, <<"m", "u", "s", "t">>, "AUX"),
       Word(<<"h", "a", "v", "e">>, TRUE, <<"h", "a", "v", "e">>, "VERB"),
       Word(<<"s", "k", "i", "l", "l", "s">>, FALSE, <<"s", "k", "i", "l", "l">>, "NOUN"),
       Word(<<":">>, TRUE, <<":">>, "PUNCT"),
       Word(S_Java, FALSE, S_Java, "PROPN"),
       Word(<<",">>, TRUE, <<",">>, "PUNCT"),
       Word(S_Spring, TRUE, S_Spring, "PROPN"),
       Word(<<"B", "o", "o", "t">>, FALSE, <<"B", "o", "o", "t">>, "PROPN"),
       Word(<<",">>, TRUE, <<",">>, "PUNCT"),
       Word(S_Spring, FALSE, S_Spring, "PROPN"),
       Word(<<",">>, TRUE, <<",">>, "PUNCT"),
       Word(S_SQL, FALSE, S_SQL, "PROPN") >>

\* "Python Python ... Python", n times
TextRepeated(n) == [i \in 1..n |-> Word(S_Python, i < n, S_Python, "PROPN")]

\* "Kafka for Sales"
TextKafkaSales ==
    << Word(S_Kafka, TRUE, S_Kafka, "PROPN"),
       Word(<<"f", "o", "r">>, TRUE, <<"f", "o", "r">>, "ADP"),
       Word(S_Sales, FALSE, S_Sales, "PROPN") >>

\* "Uses ++"
TextPlusPlus ==
    << Word(<<"U", "s", "e", "s">>, TRUE, <<"u", "s", "e">>, "VERB"),
       Word(S_PlusPlus, FALSE, S_PlusPlus, "SYM") >>

\* "Uses Jest js"
TextJestJs ==
    << Word(S_Uses, TRUE, s_use, "VERB"),
       Word(S_Jest, TRUE, S_Jest, "PROPN"),
       Word(s_js, FALSE, s_js, "PROPN") >>

\* "They spring in Spring"
TextSpring ==
    << Word(<<"T", "h", "e", "y">>, TRUE, <<"t", "h", "e", "y">>, "PRON"),
       Word(s_spring, TRUE, s_spring, "VERB"),
       Word(<<"i", "n">>, TRUE, <<"i", "n">>, "ADP"),
       Word(S_Spring, FALSE, s_spring, "NOUN") >>

Texts ==
    {TextMustHave, TextKafkaSales, TextSpring, TextPlusPlus, TextJestJs}
        \cup {TextRepeated(n) : n \in 1..MaxRepeat}

\* the phrases the provider may be asked to encode
Phrases == Range(CsvSkills) \cup {s_spring}

\* the phrases a text makes the provider encode: the rows of the CSV that match
\* in it and the matched texts as the text spells them
phrases_of(text) ==
    LET doc_ == preprocess(text)
    IN  {p \in Phrases :
            \/ p \in Range(CsvSkills) /\ phrase_spans(doc_, <<p>>) # {}
            \/ \E sp \in phrase_spans(doc_, CsvSkills) : span_text(doc_, sp[1], sp[2]) = p}

Technical == [outcome |-> "ok", important |-> 56, less_important |-> 20, non_tech |-> 0]
TechnicalLess == [outcome |-> "ok", important |-> 20, less_important |-> 56, non_tech |-> 0]
NotTechnical == [outcome |-> "ok", important |-> 20, less_important |-> 20, non_tech |-> 40]
BrokenPipe == [outcome |-> "broken_pipe", important |-> 0, less_important |-> 0, non_tech |-> 0]

\* the texts, each with the phrases of the vocabulary that occur in it
TextCases == {[text |-> t, phrases |-> phrases_of(t)] : t \in Texts}

\* what the provider may give a phrase of the text: fewer outcomes per phrase
\* for the text with more phrases
outcomes_for(phrases) ==
    IF Cardinality(phrases) > 2
    THEN {Technical, NotTechnical}
    ELSE {Technical, TechnicalLess, NotTechnical, BrokenPipe}

\* the providers for a text: every outcome for its phrases; the other rows of
\* the CSV are technical, but encode may fail for the row that is in no text
EncodersFor(phrases) ==
    { [p \in Phrases |-> IF p \in phrases THEN g[p]
                         ELSE IF p = S_Coding THEN x
                         ELSE Technical] :
        g \in [phrases -> outcomes_for(phrases)], x \in {Technical, BrokenPipe} }

InitExtract ==
    /\ \E file \in OntologyFiles :
          /\ skill_lookup = ontology_skill_lookup(file)
          /\ parent_map = ontology_parent_map(file)
    /\ custom_keywords \in CustomKeywordFiles
    /\ skills_db = DatabaseNotLoaded
    /\ \E case \in TextCases, flag \in BOOLEAN :
          /\ request = [text |-> case.text, use_context_filter |-> flag]
          /\ \/ classifier = ClassifierLoaded /\ encoder \in EncodersFor(case.phrases)
             \/ classifier = ClassifierUnavailable /\ encoder = [p \in Phrases |-> BrokenPipe]
    /\ call = NoCall
    /\ ret = NoReturn
    /\ category = NoCategory
    /\ matched_skills_data = <<>>
    /\ technical_skills_set = {}
    /\ second_pass = <<>>
    /\ results = <<>>
    /\ matches = <<>>
    /\ skill_tuples = <<>>
    /\ pc = "start"
    /\ _skills_db = None
    /\ load_runs = 0

\* skills_db.load() at startup
Load ==
    /\ pc = "start"
    /\ ~skills_db.loaded
    /\ \E r \in {load(classifier, CsvSkills, custom_keywords)} :
        /\ skills_db' = r.skills_db
        /\ classifier' = r.classifier
        /\ pc' = "loaded"
        /\ load_runs' = load_runs + 1
        /\ UNCHANGED _skills_db
        /\ UNCHANGED <<skill_lookup, parent_map, encoder, call, ret, category, results,
                       matches, custom_keywords, request, matched_skills_data,
                       technical_skills_set, second_pass, skill_tuples>>

\* matches = extract_skills_with_phrasematcher(request.text, nlp_model, skills_db, ...)
Extract ==
    /\ pc = "loaded"
    /\ skills_db.loaded
    /\ \E r \in {extract_skills_with_phrasematcher(request.text, skills_db, classifier,
                                                request.use_context_filter)} :
        /\ matched_skills_data' = r.matched_skills_data
        /\ technical_skills_set' = r.technical_skills_set
        /\ second_pass' = r.second_pass
        /\ results' = r.results
        /\ matches' = r.ret
        /\ classifier' = r.classifier
        /\ pc' = "extracted"
        /\ UNCHANGED process_vars
        /\ UNCHANGED <<skill_lookup, parent_map, encoder, call, ret, category,
                       custom_keywords, skills_db, request, skill_tuples>>

\* _extract_skills_internal: skill_tuples built from matches and sorted, and
\* the matches of the response built from them
Deduplicate ==
    /\ pc = "extracted"
    /\ skill_tuples' = unique_sorted_tuples(matches)
    /\ ret' = normalized_matches(skills_db, unique_sorted_tuples(matches))
    /\ pc' = "done"
    /\ UNCHANGED process_vars
    /\ UNCHANGED <<skill_lookup, parent_map, classifier, encoder, call, category,
                   results, matches, custom_keywords, skills_db, request,
                   matched_skills_data, technical_skills_set, second_pass>>

NextExtract == Load \/ Extract \/ Deduplicate

SpecExtract == InitExtract /\ [][NextExtract]_vars

----------------------------------------------------------------------------
(* A request whose text spells the custom keyword RAG                      *)

\* "R.A.G." and "R.A.G"
S_RAG_dots == <<"R", ".", "A", ".", "G", ".">>
S_RAG_dotted == <<"R", ".", "A", ".", "G">>

\* "Uses RAG"
TextRAG ==
    << Word(S_Uses, TRUE, s_use, "VERB"), Word(S_RAG, FALSE, S_RAG, "PROPN") >>

\* "Uses R.A.G." with the abbreviation as one token
TextRAGDots ==
    << Word(S_Uses, TRUE, s_use, "VERB"), Word(S_RAG_dots, FALSE, S_RAG_dots, "PROPN") >>

\* "Uses R.A.G." with the last full stop as a token of its own
TextRAGDotsSplit ==
    << Word(S_Uses, TRUE, s_use, "VERB"),
       Word(S_RAG_dotted, FALSE, S_RAG_dotted, "PROPN"),
       Word(<<".">>, FALSE, <<".">>, "PUNCT") >>

\* "Uses RAG R.A.G": the keyword spelled in two of its variations
TextRAGTwice ==
    << Word(S_Uses, TRUE, s_use, "VERB"), Word(S_RAG, TRUE, S_RAG, "PROPN"),
       Word(S_RAG_dotted, FALSE, S_RAG_dotted, "PROPN") >>

\* custom_keywords.json with the keyword RAG, as load_custom_keywords returns it
CustomKeywordRAG == load_custom_keywords(<<[base |-> S_RAG, variations |-> <<>>]>>)

InitCustom ==
    /\ \E file \in OntologyFiles :
          /\ skill_lookup = ontology_skill_lookup(file)
          /\ parent_map = ontology_parent_map(file)
    /\ custom_keywords \in {<<>>, CustomKeywordRAG}
    /\ skills_db = DatabaseNotLoaded
    /\ \E text \in {TextRAG, TextRAGDots, TextRAGDotsSplit, TextRAGTwice}, flag \in BOOLEAN :
          request = [text |-> text, use_context_filter |-> flag]
    /\ \/ classifier = ClassifierLoaded /\ encoder \in EncodersFor({})
       \/ classifier = ClassifierUnavailable /\ encoder = [p \in Phrases |-> BrokenPipe]
    /\ call = NoCall
    /\ ret = NoReturn
    /\ category = NoCategory
    /\ matched_skills_data = <<>>
    /\ technical_skills_set = {}
    /\ second_pass = <<>>
    /\ results = <<>>
    /\ matches = <<>>
    /\ skill_tuples = <<>>
    /\ pc = "start"
    /\ _skills_db = None
    /\ load_runs = 0

SpecCustom == InitCustom /\ [][NextExtract]_vars

----------------------------------------------------------------------------
(* Requests served without the classifier, for a name of two words         *)

S_MVC == <<"M", "V", "C">>
s_mvc == str_lower(S_MVC)
T_concept == <<"c", "o", "n", "c", "e", "p", "t">>

\* skill_ontology.json with an entry for spring mvc of the given type
OntologySpringMVC(type) ==
    OntologyJavaSpring \o <<OntologyEntry(s_spring_mvc, type, <<2>>, <<s_spring>>, <<>>)>>

\* the files: the ones of the other requests, and spring mvc as a framework
\* and as a type outside ALLOWED_SKILL_TYPES
OntologyFilesDegraded ==
    OntologyFiles \cup {OntologySpringMVC(T_framework), OntologySpringMVC(T_concept)}

\* the skills CSV with the row Spring MVC
CsvSkillsDegraded == CsvSkills \o <<S_SpringMVC>>

\* "Uses Spring MVC"
TextUsesSpringMVC ==
    << Word(S_Uses, TRUE, s_use, "VERB"),
       Word(S_Spring, TRUE, S_Spring, "PROPN"),
       Word(S_MVC, FALSE, S_MVC, "PROPN") >>

\* "Then spring mvc", tagged as an adverb, a verb and an unknown word
TextThenSpringMVC ==
    << Word(<<"T", "h", "e", "n">>, TRUE, <<"t", "h", "e", "n">>, "ADV"),
       Word(s_spring, TRUE, s_spring, "VERB"),
       Word(s_mvc, FALSE, s_mvc, "X") >>

InitDegraded ==
    /\ \E file \in OntologyFilesDegraded :
          /\ skill_lookup = ontology_skill_lookup(file)
          /\ parent_map = ontology_parent_map(file)
    /\ custom_keywords \in
          CustomKeywordFiles
              \cup {load_custom_keywords(<<[base |-> S_SpringMVC, variations |-> <<>>]>>)}
    /\ skills_db = DatabaseNotLoaded
    /\ \E text \in {TextMustHave, TextUsesSpringMVC, TextThenSpringMVC}, flag \in BOOLEAN :
          request = [text |-> text, use_context_filter |-> flag]
    /\ classifier = ClassifierUnavailable
    /\ encoder = [p \in Phrases |-> BrokenPipe]
    /\ call = NoCall
    /\ ret = NoReturn
    /\ category = NoCategory
    /\ matched_skills_data = <<>>
    /\ technical_skills_set = {}
    /\ second_pass = <<>>
    /\ results = <<>>
    /\ matches = <<>>
    /\ skill_tuples = <<>>
    /\ pc = "start"
    /\ _skills_db = None
    /\ load_runs = 0

\* skills_db.load() at startup, on the CSV with the row Spring MVC
LoadDegraded ==
    /\ pc = "start"
    /\ ~skills_db.loaded
    /\ \E r \in {load(classifier, CsvSkillsDegraded, custom_keywords)} :
        /\ skills_db' = r.skills_db
        /\ classifier' = r.classifier
        /\ pc' = "loaded"
        /\ load_runs' = load_runs + 1
        /\ UNCHANGED _skills_db
        /\ UNCHANGED <<skill_lookup, parent_map, encoder, call, ret, category, results,
                       matches, custom_keywords, request, matched_skills_data,
                       technical_skills_set, second_pass, skill_tuples>>

NextDegraded == LoadDegraded \/ Extract \/ Deduplicate

SpecDegraded == InitDegraded /\ [][NextDegraded]_vars

----------------------------------------------------------------------------
(* SkillsDatabase.load on a skills CSV and a custom keyword file            *)

\* longest skills CSV of the model, in rows
MaxRows == 2

\* the rows a skills CSV of the model may hold: one name in two spellings that
\* differ in case only, and another name
RowNames == {S_Spring, s_spring, S_Java}

\* the skills CSVs: the rows read, in file order
CsvFiles == SeqsUpTo(RowNames, MaxRows)

\* the custom keyword files of a load: those of the requests, the keyword RAG,
\* and a keyword whose variations the operator supplied
CustomKeywordFilesLoad ==
    CustomKeywordFiles
        \cup {CustomKeywordRAG,
              load_custom_keywords(<<[base |-> S_Java, variations |-> <<s_js, S_Spring>>]>>)}

InitLoad ==
    /\ skill_lookup = ontology_skill_lookup(<<>>)
    /\ parent_map = ontology_parent_map(<<>>)
    /\ custom_keywords \in CustomKeywordFilesLoad
    /\ skills_db = DatabaseNotLoaded
    /\ request = [text |-> <<>>, use_context_filter |-> TRUE]
    /\ \/ classifier = ClassifierLoaded /\ encoder \in EncodersFor(RowNames)
       \/ classifier = ClassifierUnavailable /\ encoder = [p \in Phrases |-> BrokenPipe]
    /\ call \in {[op |-> "load", all_skills |-> rows] : rows \in CsvFiles}
    /\ ret = NoReturn
    /\ category = NoCategory
    /\ matched_skills_data = <<>>
    /\ technical_skills_set = {}
    /\ second_pass = <<>>
    /\ results = <<>>
    /\ matches = <<>>
    /\ skill_tuples = <<>>
    /\ pc = "start"
    /\ _skills_db = None
    /\ load_runs = 0

\* skills_db.load() on the CSV call.all_skills
LoadRows ==
    /\ pc = "start"
    /\ ~skills_db.loaded
    /\ \E r \in {load(classifier, call.all_skills, custom_keywords)} :
        /\ skills_db' = r.skills_db
        /\ classifier' = r.classifier
        /\ load_runs' = load_runs + 1
        /\ pc' = "loaded"
        /\ UNCHANGED <<skill_lookup, parent_map, encoder, call, ret, category, results,
                       matches, custom_keywords, request, matched_skills_data,
                       technical_skills_set, second_pass, skill_tuples, _skills_db>>

NextLoad == LoadRows

SpecLoad == InitLoad /\ [][NextLoad]_vars

----------------------------------------------------------------------------
(* SkillsDatabase._get_canonical on the spellings of the aliases            *)

\* the aliases of CANONICAL_MAP
Aliases == {CANONICAL_MAP[i][1] : i \in DOMAIN CANONICAL_MAP}

\* surface forms: each alias as written, in upper case, with its spaces as
\* hyphens, and reduced to its letters and digits
SurfaceForms ==
    UNION {{a, str_upper(a), replace_spaces(a, <<"-">>), _normalize(a)} : a \in Aliases}

InitCanonical ==
    /\ skill_lookup = ontology_skill_lookup(<<>>)
    /\ parent_map = ontology_parent_map(<<>>)
    /\ custom_keywords = <<>>
    /\ skills_db = DatabaseNotLoaded
    /\ request = [text |-> <<>>, use_context_filter |-> TRUE]
    /\ classifier = ClassifierUnavailable
    /\ encoder = [p \in Phrases |-> BrokenPipe]
    /\ call \in {[op |-> "_get_canonical", skill |-> form] : form \in SurfaceForms}
    /\ ret = NoReturn
    /\ category = NoCategory
    /\ matched_skills_data = <<>>
    /\ technical_skills_set = {}
    /\ second_pass = <<>>
    /\ results = <<>>
    /\ matches = <<>>
    /\ skill_tuples = <<>>
    /\ pc = "start"
    /\ _skills_db = None
    /\ load_runs = 0

\* canonical = self._get_canonical(skill_lower)
GetCanonical ==
    /\ pc = "start"
    /\ call.op = "_get_canonical"
    /\ ret' = _get_canonical(call.skill)
    /\ pc' = "canonical"
    /\ UNCHANGED process_vars
    /\ UNCHANGED <<skill_lookup, parent_map, classifier, encoder, call, category,
                   results, matches, extraction_vars>>

NextCanonical == GetCanonical

SpecCanonical == InitCanonical /\ [][NextCanonical]_vars

----------------------------------------------------------------------------
(* SkillOntology.get_weight on the names of the vocabulary and of the tables *)

\* the surface forms weighed: the rows of the CSV, two custom keywords, and the
\* entries of the three tables as written and in upper case
WeighedForms ==
    Range(CsvSkills) \cup {S_Sales, S_RAG}
        \cup UNION {{t, str_upper(t)} : t \in core_languages \cup major_frameworks
                                                  \cup tools_platforms}

InitWeight ==
    /\ \E file \in OntologyFiles :
          /\ skill_lookup = ontology_skill_lookup(file)
          /\ parent_map = ontology_parent_map(file)
    /\ custom_keywords = <<>>
    /\ skills_db = DatabaseNotLoaded
    /\ request = [text |-> <<>>, use_context_filter |-> TRUE]
    /\ classifier = ClassifierUnavailable
    /\ encoder = [p \in Phrases |-> BrokenPipe]
    /\ call \in {[op |-> "get_weight", skill |-> form] : form \in WeighedForms}
    /\ ret = NoReturn
    /\ category = NoCategory
    /\ matched_skills_data = <<>>
    /\ technical_skills_set = {}
    /\ second_pass = <<>>
    /\ results = <<>>
    /\ matches = <<>>
    /\ skill_tuples = <<>>
    /\ pc = "start"
    /\ _skills_db = None
    /\ load_runs = 0

\* base_weight = skills_db.ontology.get_weight(matched_text), in halves
GetWeight ==
    /\ pc = "start"
    /\ call.op = "get_weight"
    /\ ret' = get_weight(call.skill)
    /\ pc' = "weighed"
    /\ UNCHANGED process_vars
    /\ UNCHANGED <<skill_lookup, parent_map, classifier, encoder, call, category,
                   results, matches, extraction_vars>>

NextWeight == GetWeight

SpecWeight == InitWeight /\ [][NextWeight]_vars

----------------------------------------------------------------------------
(* _extract_skills_internal: the tier lists for the tuples of a response   *)

\* most tuples in skill_tuples
MaxTuples == 2

S_Git == <<"G", "i", "t">>

\* the vocabulary of the responses: Coding is on the blacklist, Git holds the
\* blacklisted term "it", js is displayed as JavaScript
TierSkills == <<S_Kafka, S_Coding, s_js, S_Git>>

\* the database loaded from that vocabulary
TierDatabase == load(ClassifierUnavailable, TierSkills, <<>>).skills_db

\* the phrases encoded for the tiers: the display names
TierPhrases == {normalize_skill_display(TierDatabase, skill) : skill \in Range(TierSkills)}

\* what the extraction may return: (skill, canonical, weight)
TierMatches ==
    { <<skill, _get_canonical(str_lower(skill)), weight>> :
        skill \in Range(TierSkills), weight \in ServiceWeights }

\* what encode gives a display name in the tier assignment
TierResults ==
    { [outcome |-> "ok", important |-> 56, less_important |-> 20, non_tech |-> 0],
      [outcome |-> "ok", important |-> 20, less_important |-> 46, non_tech |-> 31],
      [outcome |-> "ok", important |-> 20, less_important |-> 20, non_tech |-> 40],
      [outcome |-> "ok", important |-> 25, less_important |-> 20, non_tech |-> 10],
      [outcome |-> "error", important |-> 0, less_important |-> 0, non_tech |-> 0] }

InitTiers ==
    /\ skill_lookup = ontology_skill_lookup(<<>>)
    /\ parent_map = ontology_parent_map(<<>>)
    /\ custom_keywords = <<>>
    /\ skills_db = TierDatabase
    /\ request = [text |-> <<>>, use_context_filter |-> TRUE]
    /\ \/ /\ classifier = ClassifierLoaded
          /\ \E p \in TierPhrases, r \in TierResults :
                encoder = [q \in TierPhrases |->
                              IF q = p THEN r
                              ELSE [outcome |-> "ok", important |-> 56,
                                    less_important |-> 20, non_tech |-> 0]]
       \/ /\ classifier = ClassifierUnavailable
          /\ encoder = [q \in TierPhrases |-> BrokenPipe]
    /\ matches \in SeqsUpTo(TierMatches, MaxTuples)
    /\ call = NoCall
    /\ ret = NoReturn
    /\ category = NoCategory
    /\ matched_skills_data = <<>>
    /\ technical_skills_set = {}
    /\ second_pass = <<>>
    /\ results = <<>>
    /\ skill_tuples = <<>>
    /\ pc = "extracted"
    /\ _skills_db = None
    /\ load_runs = 0

\* _extract_skills_internal from the matches on: skill_tuples, the display names
\* and the three tier lists of the response
BuildResponse ==
    /\ pc = "extracted"
    /\ \E tuples \in {unique_sorted_tuples(matches)} :
        /\ skill_tuples' = tuples
        /\ call' = [op |-> "_extract_skills_internal"]
        /\ ret' = [skills |-> normalized_skills(skills_db, tuples)]
                     @@ tier_lists(classifier, skills_db, tuples)
        /\ pc' = "responded"
        /\ UNCHANGED process_vars
        /\ UNCHANGED <<skill_lookup, parent_map, classifier, encoder, category,
                       results, matches, custom_keywords, skills_db, request,
                       matched_skills_data, technical_skills_set, second_pass>>

NextTiers == BuildResponse

SpecTiers == InitTiers /\ [][NextTiers]_vars

----------------------------------------------------------------------------
(* The process: get_skills_database, SkillsDatabase.load and extraction    *)
(* called in any order, with a skills CSV that may be missing at a call    *)

\* how many times the model lets the body of load be entered
MaxLoadRuns == 3

\* extraction is called while the classifier has counted fewer phrases than this
MaxCounted == 11

\* the body of SkillsDatabase.load on an instance that is not loaded: with the
\* CSV missing it raises FileNotFoundError before it changes anything
load_body(db, c, keywords, csv_exists) ==
    IF csv_exists
    THEN [raised |-> FALSE] @@ load(c, CsvSkills, keywords)
    ELSE [raised |-> TRUE, skills_db |-> db, classifier |-> c]

\* SkillsDatabase.load: nothing when the instance is loaded, else the body
load_call(db, c, keywords, csv_exists) ==
    IF db.loaded
    THEN [raised |-> FALSE, skills_db |-> db, classifier |-> c, body |-> 0]
    ELSE [body |-> 1] @@ load_body(db, c, keywords, csv_exists)

\* get_skills_database(): the global is assigned before load is called, so an
\* exception of load leaves the instance, not loaded, in the global
get_skills_database(global, db, c, keywords, csv_exists) ==
    IF global = None
    THEN [global |-> TheInstance] @@ load_call(DatabaseNotLoaded, c, keywords, csv_exists)
    ELSE [global |-> global, raised |-> FALSE, skills_db |-> db, classifier |-> c,
          body |-> 0]

InitProcess ==
    /\ \E file \in OntologyFiles :
          /\ skill_lookup = ontology_skill_lookup(file)
          /\ parent_map = ontology_parent_map(file)
    /\ custom_keywords \in CustomKeywordFiles
    /\ skills_db = DatabaseNotLoaded
    /\ \E case \in {t \in TextCases : t.text = TextSpring} :
          /\ request = [text |-> case.text, use_context_filter |-> TRUE]
          /\ \/ /\ classifier = ClassifierLoaded
                /\ encoder \in {e \in EncodersFor(case.phrases) :
                                  \A p \in case.phrases : e[p] \in {Technical, NotTechnical}}
             \/ classifier = ClassifierUnavailable /\ encoder = [p \in Phrases |-> BrokenPipe]
    /\ call = NoCall
    /\ ret = NoReturn
    /\ category = NoCategory
    /\ matched_skills_data = <<>>
    /\ technical_skills_set = {}
    /\ second_pass = <<>>
    /\ results = <<>>
    /\ matches = <<>>
    /\ skill_tuples = <<>>
    /\ pc = "start"
    /\ _skills_db = None
    /\ load_runs = 0

\* skills_db = get_skills_database(), at startup or in a request
GetSkillsDatabase ==
    /\ load_runs < MaxLoadRuns
    /\ \E csv_exists \in BOOLEAN :
       \E r \in {get_skills_database(_skills_db, skills_db, classifier, custom_keywords,
                                     csv_exists)} :
        /\ call' = [op |-> "get_skills_database", csv_exists |-> csv_exists]
        /\ _skills_db' = r.global
        /\ skills_db' = r.skills_db
        /\ classifier' = r.classifier
        /\ load_runs' = load_runs + r.body
        /\ ret' = [raised |-> r.raised, instance |-> r.global, loaded |-> r.skills_db.loaded]
        /\ pc' = IF r.raised THEN "raised" ELSE "returned"
        /\ UNCHANGED <<skill_lookup, parent_map, encoder, category, results, matches,
                       custom_keywords, request, matched_skills_data,
                       technical_skills_set, second_pass, skill_tuples>>

\* skills_db.load() on the instance get_skills_database handed out
LoadInstance ==
    /\ _skills_db # None
    /\ load_runs < MaxLoadRuns
    /\ \E csv_exists \in BOOLEAN :
       \E r \in {load_call(skills_db, classifier, custom_keywords, csv_exists)} :
        /\ call' = [op |-> "load", csv_exists |-> csv_exists]
        /\ skills_db' = r.skills_db
        /\ classifier' = r.classifier
        /\ load_runs' = load_runs + r.body
        /\ ret' = [raised |-> r.raised, instance |-> _skills_db, loaded |-> r.skills_db.loaded]
        /\ pc' = IF r.raised THEN "raised" ELSE "returned"
        /\ UNCHANGED <<skill_lookup, parent_map, encoder, category, results, matches,
                       custom_keywords, request, matched_skills_data,
                       technical_skills_set, second_pass, skill_tuples, _skills_db>>

\* extract_skills_with_phrasematcher(text, nlp_model, skills_db, ...) on the
\* instance: load when it is not loaded, then the extraction
ExtractOnInstance ==
    /\ _skills_db # None
    /\ load_runs < MaxLoadRuns
    /\ classifier.classification_count < MaxCounted
    /\ \E csv_exists \in BOOLEAN :
       \E l \in {load_call(skills_db, classifier, custom_keywords, csv_exists)} :
        /\ call' = [op |-> "extract_skills_with_phrasematcher", csv_exists |-> csv_exists]
        /\ load_runs' = load_runs + l.body
        /\ skills_db' = l.skills_db
        /\ ret' = [raised |-> l.raised, instance |-> _skills_db, loaded |-> l.skills_db.loaded]
        /\ pc' = IF l.raised THEN "raised" ELSE "extracted"
        /\ IF l.raised
           THEN /\ classifier' = l.classifier
                /\ UNCHANGED <<matched_skills_data, technical_skills_set, second_pass,
                               results, matches>>
           ELSE \E r \in {extract_skills_with_phrasematcher(request.text, l.skills_db,
                                                           l.classifier,
                                                           request.use_context_filter)} :
                /\ matched_skills_data' = r.matched_skills_data
                /\ technical_skills_set' = r.technical_skills_set
                /\ second_pass' = r.second_pass
                /\ results' = r.results
                /\ matches' = r.ret
                /\ classifier' = r.classifier
        /\ UNCHANGED <<skill_lookup, parent_map, encoder, category, custom_keywords,
                       request, skill_tuples, _skills_db>>

NextProcess == GetSkillsDatabase \/ LoadInstance \/ ExtractOnInstance

SpecProcess == InitProcess /\ [][NextProcess]_vars

----------------------------------------------------------------------------
(* The frequency boost on its own                                          *)

\* largest frequency of a candidate
MaxFrequency == 8

\* base weights 0.0, 0.5, ... 3.0
BoostWeights == 0..(3 * WeightUnit)

InitBoost ==
    /\ skill_lookup = <<>>
    /\ parent_map = <<>>
    /\ classifier = ClassifierUnavailable
    /\ encoder = <<>>
    /\ call \in [op : {"boosted_weight"}, weight : BoostWeights,
                 frequency : 1..MaxFrequency]
    /\ ret = NoReturn
    /\ category = NoCategory
    /\ results = <<>>
    /\ matches = <<>>
    /\ NoExtraction
    /\ pc = "start"
    /\ _skills_db = None
    /\ load_runs = 0

\* boosted_weight = float(weight) + frequency_boost, for a frequency and the next
Boost ==
    /\ pc = "start"
    /\ call.op = "boosted_weight"
    /\ ret' = <<boosted_weight(call.weight, call.frequency),
                boosted_weight(call.weight, call.frequency + 1)>>
    /\ pc' = "boosted"
    /\ UNCHANGED process_vars
    /\ UNCHANGED <<skill_lookup, parent_map, classifier, encoder, call, category,
                   results, matches, extraction_vars>>

NextBoost == Boost

SpecBoost == InitBoost /\ [][NextBoost]_vars

----------------------------------------------------------------------------
(* Claims                                                                  *)

names_of(list) == {e[1] : e \in Range(list)}

\* C is listed as a child of P, names compared in lower case
listed_child(P, C) == str_lower(C) \in lowered(get_children(P))

\* C1: whenever the input of the overlap resolver holds a skill P and a skill C
\* listed as a child of P, its output holds exactly one of P and C.
C1_ExactlyOneOfParentAndChild ==
    pc = "collapsed" =>
        \A P \in names_of(results), C \in names_of(results) :
            listed_child(P, C) => ((P \in names_of(matches)) # (C \in names_of(matches)))

\* The classifier's verdict as section 4.4 of the specification states it
stated_technical(e, threshold) ==
    /\ max2(e.important, e.less_important) - e.non_tech > threshold
    /\ 10 * max2(e.important, e.less_important) > 3 * SimUnit

RECURSIVE all_encoded(_)
all_encoded(skills_) ==
    skills_ = <<>> \/ (encoder[Head(skills_)].outcome = "ok" /\ all_encoded(Tail(skills_)))

\* C4: a phrase is in the set batch_classify_skills returns exactly when
\* is_technical_skill returns True for it alone, at the same threshold and on the
\* same provider, also when encode fails for some phrase of the list.
C4_BatchAgreesWithSingle ==
    call.op = "batch_classify_skills" =>
        \A p \in Range(call.skills) :
            (p \in ret) <=> is_technical_skill(classifier, p, call.threshold).ret

stated_tier(e, threshold) ==
    IF stated_technical(e, threshold)
    THEN (IF e.important >= e.less_important THEN "Important" ELSE "LessImportant")
    ELSE "NonTechnical"

tier_of(name) ==
    CASE name \in {"IMPORTANT_TECH", "important"} -> "Important"
      [] name \in {"LESS_IMPORTANT_TECH", "less_important"} -> "LessImportant"
      [] OTHER -> "NonTechnical"

\* C6: a technical phrase gets tier Important when simImportant >= simLess and
\* LessImportant otherwise, a phrase that is not technical gets NonTechnical, in
\* the category is_technical_skill decides and in the tier list the service puts
\* a skill in (skills outside the blacklist, the default threshold).
C6_TierAssignment ==
    /\ (call.op = "is_technical_skill" /\ category # NoCategory)
       => tier_of(category) = stated_tier(encoder[call.skill], call.threshold)
    /\ ( /\ call.op = "assign_tier"
         /\ has_classifier(classifier)
         /\ encoder[call.skill].outcome = "ok"
         /\ ~is_blacklisted_skill(call.skill) )
       => tier_of(ret) = stated_tier(encoder[call.skill], DefaultThreshold)

\* the names of a list of tuples, in lower case
lower_names_of(list) == {str_lower(n) : n \in names_of(list)}

\* C2: extraction of "Must have skills: Java, Spring Boot, Spring, SQL" with the
\* vocabulary java (3), spring (2, parent of spring boot), spring boot (2) and
\* sql (3), every candidate validated: the list returned after matching,
\* frequency boost and overlap resolution holds Java, Spring Boot and SQL and
\* does not hold Spring.
C2_MustHaveKeepsSpringBoot ==
    ( /\ pc \in {"extracted", "done"}
      /\ request.text = TextMustHave
      /\ request.use_context_filter
      /\ skill_lookup = ontology_skill_lookup(OntologyJavaSpring)
      /\ lower_names_of(results) = {s_java, s_spring, s_spring_boot, s_sql} )
    => /\ {s_java, s_spring_boot, s_sql} \subseteq lower_names_of(matches)
       /\ s_spring \notin lower_names_of(matches)

\* C3: every matched candidate whose normalized form is in the custom registry
\* is in the final output (the list of the service after de-duplication),
\* whatever the classifier's state and verdicts, the rule verdicts, the
\* looked-up weight and the other candidates of the text (the context filter on,
\* as the service calls the extraction).
C3_CustomKeywordAlwaysInOutput ==
    (pc = "done" /\ request.use_context_filter) =>
        \A i \in DOMAIN matched_skills_data :
            _normalize(matched_skills_data[i].key) \in skills_db.custom_keywords_normalized
                => \E t \in Range(skill_tuples) : t[1] = second_pass[i].result[1]

\* C7: every emitted candidate with base weight w and frequency f >= 1 has the
\* weight w + min((f - 1) * 0.5, 2.0), in the results and in every list derived
\* from them; "Python Python Python" with base weight 3 gives 4.0.
C7_FrequencyBoostFormula ==
    pc \in {"extracted", "done"} =>
        /\ \A i \in DOMAIN second_pass :
              second_pass[i].outcome = "emitted" =>
                  /\ second_pass[i].frequency >= 1
                  /\ 2 * second_pass[i].result[3]
                        = 2 * second_pass[i].weight
                            + min2((second_pass[i].frequency - 1) * WeightUnit,
                                   4 * WeightUnit)
                  /\ second_pass[i].result \in Range(results)
        /\ Range(matches) \cup Range(skill_tuples) \subseteq Range(results)
        /\ \A i \in DOMAIN second_pass :
              ( /\ request.text = TextRepeated(3)
                /\ second_pass[i].text = S_Python
                /\ second_pass[i].outcome = "emitted"
                /\ second_pass[i].weight = 3 * WeightUnit )
              => second_pass[i].result[3] = 4 * WeightUnit

\* C7 witness: "Python Python Python" was extracted, Python has base weight 3
\* and the final output gives it 4.0
C7_Witness ==
    /\ pc = "done"
    /\ request.use_context_filter
    /\ request.text = TextRepeated(3)
    /\ \E i \in DOMAIN second_pass :
          /\ second_pass[i].text = S_Python
          /\ second_pass[i].frequency = 3
          /\ second_pass[i].weight = 3 * WeightUnit
          /\ second_pass[i].outcome = "emitted"
          /\ second_pass[i].result[3] = 4 * WeightUnit
          /\ second_pass[i].result \in Range(skill_tuples)

\* C8: for a fixed base weight the boosted weight does not decrease from a
\* frequency to the next, the boost never exceeds 2.0, and it is 2.0 exactly
\* from frequency 5 on.
C8_BoostMonotoneAndCapped ==
    pc = "boosted" =>
        /\ ret[1] <= ret[2]
        /\ ret[1] - call.weight <= 2 * WeightUnit
        /\ ret[2] - call.weight <= 2 * WeightUnit
        /\ (ret[1] - call.weight = 2 * WeightUnit) <=> (call.frequency >= 5)

\* C8 witness: the boost of frequency 5 is 2.0 and frequency 6 adds nothing
C8_Witness ==
    /\ pc = "boosted"
    /\ call.frequency = 5
    /\ ret[1] = call.weight + 2 * WeightUnit
    /\ ret[2] = ret[1]

\* the term has an entry of the alias table
in_alias_table(text) ==
    \E i \in DOMAIN CANONICAL_MAP : CANONICAL_MAP_normalized[i] = _normalize(text)

\* the provider's similarities make the candidate technical at the threshold of
\* the extraction
scored_technical(text) ==
    /\ has_classifier(classifier)
    /\ text \in DOMAIN encoder
    /\ encoder[text].outcome = "ok"
    /\ stated_technical(encoder[text], ExtractionThreshold)

\* the fallback weight of section 4.6: 2.0 for tier Important, else 1.0
stated_fallback_weight(text) ==
    IF stated_tier(encoder[text], ExtractionThreshold) = "Important"
    THEN 2 * WeightUnit ELSE 1 * WeightUnit

\* C9: a candidate with no ontology entry and no alias-table entry that the
\* classifier scores technical is emitted, never dropped, with its surface text
\* as canonical form and base weight 2.0 when its tier is Important, 1.0 when
\* it is not (the context filter on, as the service calls the extraction).
C9_UnknownTechnicalTerm ==
    (pc \in {"extracted", "done"} /\ request.use_context_filter) =>
        \A i \in DOMAIN second_pass :
            ( /\ ~second_pass[i].is_custom
              /\ get_skill_info(second_pass[i].text) = <<>>
              /\ ~in_alias_table(second_pass[i].text)
              /\ scored_technical(second_pass[i].text) )
            => /\ second_pass[i].outcome = "emitted"
               /\ second_pass[i].result[2] = second_pass[i].text
               /\ second_pass[i].weight = stated_fallback_weight(second_pass[i].text)

\* the candidate is outside the custom registry, the batch classification
\* returned it as technical, and its looked-up weight is 0
technical_with_zero_weight(v) ==
    /\ classifier.available
    /\ ~v.is_custom
    /\ v.text \in technical_skills_set
    /\ v.found
    /\ v.looked_up = 0

C12_NormalizeIdempotent ==
    pc = "normalized" => ret.again = ret.text

\* C12 witness: a text that normalize changes was normalized twice
C12_Witness ==
    /\ pc = "normalized"
    /\ ret.text # call.text
    /\ ret.text # <<>>
    /\ ret.again = ret.text

\* what is left of a string when the characters outside [A-Za-z0-9] are removed
\* and the letters A-Z are taken as a-z
ascii_skeleton(s) ==
    LET kept == SelectSeq(s, LAMBDA c : c \in Range(UpperCase) \cup AlnumLower)
    IN  [i \in DOMAIN kept |->
            IF kept[i] \in Range(UpperCase)
            THEN LowerCase[CHOOSE j \in DOMAIN UpperCase : UpperCase[j] = kept[i]]
            ELSE kept[i]]

\* C13 as stated: the normalized form holds characters of [a-z0-9] only, and
\* two strings that differ only in letter case and in characters outside
\* [A-Za-z0-9] have the same normalized form.
C13_NormalizeIgnoresCaseAndOthers ==
    pc = "normalized" =>
        /\ Range(ret.text) \subseteq AlnumLower
        /\ ascii_skeleton(call.text) = ascii_skeleton(call.other) => ret.text = ret.other

\* the request has been served with the custom keyword RAG registered and the
\* text spelling it "R.A.G."
rag_dots_served ==
    /\ pc = "done"
    /\ custom_keywords = CustomKeywordRAG
    /\ span_text(request.text, 0, Len(request.text)) = S_Uses \o <<" ">> \o S_RAG_dots

\* C14: with the custom keyword RAG registered and no row of the CSV holding
\* it, a text that spells it "R.A.G." gives a candidate that is recognized as a
\* custom keyword (normalized form rag) and an entry for it in the output.
C14_DottedCustomKeywordInOutput ==
    rag_dots_served =>
        /\ \E i \in DOMAIN second_pass :
              second_pass[i].is_custom /\ _normalize(second_pass[i].text) = _normalize(S_RAG)
        /\ \E i \in DOMAIN skill_tuples : skill_tuples[i][2] = _normalize(S_RAG)

\* the filters a candidate of the custom registry is not put through
BypassedFilters ==
    {"classifier", "context", "type", "specificity", "garbage", "low_priority"}

\* the candidate's normalized form is in the registry of custom keywords
registered(entry) == _normalize(str_lower(entry.text)) \in skills_db.custom_keywords_normalized

\* C15: a candidate whose normalized form is in the custom registry is rejected
\* by none of the classifier filter, the context filter, the type gate, the
\* specificity rule, the garbage list and the low-priority filter, with the
\* classifier available or not.
C15_CustomBypassesFilters ==
    pc \in {"extracted", "done"} =>
        \A i \in DOMAIN second_pass :
            registered(second_pass[i]) => second_pass[i].outcome \notin BypassedFilters

\* C15 witness: a registered candidate that the classifier did not find
\* technical was emitted with the context filter on
C15_Witness ==
    /\ pc = "extracted"
    /\ classifier.available
    /\ request.use_context_filter
    /\ \E i \in DOMAIN second_pass :
          /\ registered(second_pass[i])
          /\ ~second_pass[i].is_technical
          /\ second_pass[i].outcome = "emitted"
          /\ \E j \in DOMAIN matches : matches[j] = second_pass[i].result

\* the entries are in descending order of weight and, among equal weights, in
\* the order of their names compared in lower case
ordered_by_weight_then_name(weights, names) ==
    \A i \in DOMAIN weights : \A j \in DOMAIN weights :
        i < j =>
            \/ weights[i] > weights[j]
            \/ /\ weights[i] = weights[j]
               /\ \/ str_lower(names[i]) = str_lower(names[j])
                  \/ str_less(str_lower(names[i]), str_lower(names[j]))

\* C16: the matches returned for a request are in descending order of weight
\* and, among entries of equal weight, in alphabetical order of the skill name.
C16_ResponseOrdered ==
    pc = "done" =>
        ordered_by_weight_then_name([i \in DOMAIN ret |-> ret[i].weight],
                                    [i \in DOMAIN ret |-> ret[i].skill])

\* C17: a phrase whose encoding raises is treated as technical: is_technical_skill
\* returns True for it and batch_classify_skills returns a set that holds it.
C17_FailOpenOnEncodeFailure ==
    /\ call.op = "is_technical_skill" =>
          (encoder[call.skill].outcome # "ok" => ret = TRUE)
    /\ call.op = "batch_classify_skills" =>
          \A i \in DOMAIN call.skills :
              encoder[call.skills[i]].outcome # "ok" => call.skills[i] \in ret

\* C17 witness: a batch call kept the phrase whose encoding failed and left
\* out another phrase of the list, with the classifier loaded
C17_Witness ==
    /\ call.op = "batch_classify_skills"
    /\ classifier.available
    /\ \E i \in DOMAIN call.skills :
          encoder[call.skills[i]].outcome # "ok" /\ call.skills[i] \in ret
    /\ \E i \in DOMAIN call.skills : call.skills[i] \notin ret

\* In the extraction, a candidate handed to the classifier whose encoding
\* failed is in technical_skills_set and is not rejected.
FailedEncodingKeepsCandidate ==
    (pc \in {"extracted", "done"} /\ classifier.available) =>
        \A i \in DOMAIN second_pass :
            (~second_pass[i].is_custom /\ encoder[second_pass[i].text].outcome # "ok")
                => /\ second_pass[i].text \in technical_skills_set
                   /\ second_pass[i].outcome = "emitted"

RuleFilters == {"type", "specificity", "garbage", "low_priority"}

\* the first of the type gate, the specificity rule, the garbage list and the
\* low-priority list that rejects the text; "passed" when none does
first_rejecting_rule(text) ==
    IF ~is_valid_skill_type(text) THEN "type"
    ELSE IF ~is_specific_enough(text) THEN "specificity"
    ELSE IF is_garbage_skill(text) THEN "garbage"
    ELSE IF is_low_priority(text) THEN "low_priority"
    ELSE "passed"

\* the i-th candidate has no skill context in the text of the request
without_context(i) ==
    ~has_skill_context(matched_skills_data[i].spans[1], preprocess(request.text))

\* with the classifier available no candidate is rejected by a rule-based filter
no_rule_filter_when_available ==
    classifier.available =>
        \A i \in DOMAIN second_pass : second_pass[i].outcome \notin RuleFilters

C19_ContextFilterSparesTechnical ==
    pc \in {"extracted", "done"} =>
        \A i \in DOMAIN second_pass :
            /\ second_pass[i].outcome = "context" =>
                  /\ request.use_context_filter
                  /\ without_context(i)
                  /\ ~second_pass[i].is_technical
            /\ second_pass[i].is_technical => second_pass[i].outcome # "context"

\* C19 witness: with the context filter set, a candidate without skill context
\* that the classifier found technical was emitted
C19_Witness ==
    /\ pc = "extracted"
    /\ request.use_context_filter
    /\ classifier.available
    /\ \E i \in DOMAIN second_pass :
          /\ ~second_pass[i].is_custom
          /\ second_pass[i].is_technical
          /\ second_pass[i].text \in technical_skills_set
          /\ without_context(i)
          /\ second_pass[i].outcome = "emitted"

\* a step taken on the loaded database leaves the shared objects as they are
shared_state_kept ==
    pc \in {"loaded", "extracted"} =>
        /\ skills_db' = skills_db
        /\ skill_lookup' = skill_lookup
        /\ parent_map' = parent_map
        /\ classifier' = classifier

\* C20: a step of a request on the loaded database (the extraction, the
\* de-duplication) leaves every field of the shared SkillsDatabase, SkillOntology
\* and SkillClassifier as it was after loading.
C20_RequestKeepsSharedState == [][shared_state_kept]_vars


\* C21 (load-once): over any sequence of get_skills_database, load and
\* extraction calls, including sequences in which a load raised, the body of
\* load is entered at most once, and every call that returns the instance
\* returns it loaded.
C21_LoadedExactlyOnce ==
    /\ load_runs <= 1
    /\ pc \in {"returned", "extracted"} => ret.loaded

\* the frequencies of all candidates, added up
RECURSIVE sum_frequencies(_)
sum_frequencies(data) ==
    IF data = <<>> THEN 0 ELSE Head(data).frequency + sum_frequencies(Tail(data))

\* the spans the matcher reported for the text of the request
reported_spans == phrase_spans(preprocess(request.text), skills_db.skills)

\* C22 (phrase-match merging): after the matching pass, occurrences whose surface
\* forms have the same normalized form are one candidate; each candidate's
\* frequency is the number of its occurrences and of its recorded spans and is
\* at least 1, and the frequencies add up to the number of matches reported.
C22_SameNormalizedFormMerged ==
    pc \in {"extracted", "done"} =>
        /\ \A i, j \in DOMAIN matched_skills_data :
              _normalize(matched_skills_data[i].key) = _normalize(matched_skills_data[j].key)
                  => i = j
        /\ \A i \in DOMAIN matched_skills_data :
              /\ matched_skills_data[i].frequency = Len(matched_skills_data[i].spans)
              /\ matched_skills_data[i].frequency >= 1
        /\ sum_frequencies(matched_skills_data) = Cardinality(reported_spans)

\* what holds of the merging: candidates are merged by their lower-cased text
C22_MergedByLowerCasedText ==
    pc \in {"extracted", "done"} =>
        /\ \A i, j \in DOMAIN matched_skills_data :
              matched_skills_data[i].key = matched_skills_data[j].key => i = j
        /\ \A i \in DOMAIN matched_skills_data :
              /\ matched_skills_data[i].frequency = Len(matched_skills_data[i].spans)
              /\ matched_skills_data[i].frequency >= 1
              /\ matched_skills_data[i].frequency =
                    Cardinality({sp \in reported_spans :
                        str_lower(str_strip(span_text(preprocess(request.text), sp[1], sp[2])))
                            = matched_skills_data[i].key})
        /\ sum_frequencies(matched_skills_data) = Cardinality(reported_spans)

\* C23 (vocabulary load discards duplicates case-insensitively): after load, for
\* every CSV and every custom keyword file, no two entries of skills are equal
\* when compared in lower case.
C23_NoCaseInsensitiveDuplicates ==
    pc = "loaded" =>
        \A i, j \in DOMAIN skills_db.skills :
            str_lower(skills_db.skills[i]) = str_lower(skills_db.skills[j]) => i = j

\* the variations of the custom keyword file, of every keyword object
custom_variations == Range(all_variations(custom_keywords))

\* C26: after load, every variation of every custom keyword (generated or
\* supplied) is in the loaded vocabulary when compared case-insensitively and
\* its normalized form is in custom_keywords_normalized, whatever the
\* classifier found and whatever rows the CSV holds.
C26_CustomVariationsLoaded ==
    pc = "loaded" =>
        \A variation \in custom_variations :
            /\ \E s \in Range(skills_db.skills) : str_lower(s) = str_lower(variation)
            /\ _normalize(str_lower(variation)) \in skills_db.custom_keywords_normalized

\* a load with the classifier available that filtered a row of the CSV which is
\* also a custom variation, and with a variation that is no row of the CSV
C26_Witness ==
    /\ pc = "loaded"
    /\ classifier.available
    /\ \E variation \in custom_variations :
          /\ variation \in Range(call.all_skills)
          /\ encoder[variation] = NotTechnical
    /\ \E variation \in custom_variations :
          \A row \in Range(call.all_skills) : str_lower(row) # str_lower(variation)

\* C24 (alias uniqueness): every alias that has the normalized form of a surface
\* form is mapped by the table to one canonical name, and _get_canonical gives
\* the surface form that canonical name.
C24_OneCanonicalPerNormalForm ==
    pc = "canonical" =>
        \A i \in DOMAIN CANONICAL_MAP :
            CANONICAL_MAP_normalized[i] = _normalize(str_lower(call.skill))
                => ret = CANONICAL_MAP[i][2]

\* the weight of the static tables for a lower-cased form
table_weight(skill_lower) ==
    IF skill_lower \in core_languages THEN 3
    ELSE IF skill_lower \in major_frameworks THEN 2
    ELSE IF skill_lower \in tools_platforms THEN 1
    ELSE 0

\* C25 (weight lookup): with an ontology entry that carries a weight the result
\* is that weight; with none it is 3, 2 or 1 exactly when the lower-cased form
\* is in the core-language, framework or tool table, and 0 for every other form.
C25_WeightFromOntologyOrTables ==
    pc = "weighed" =>
        LET skill_info == get_skill_info(call.skill)
        IN  /\ (skill_info # <<>> /\ skill_info[1].weight # <<>>)
                  => ret = skill_info[1].weight[1] * WeightUnit
            /\ skill_info = <<>>
                  => ret = table_weight(str_lower(call.skill)) * WeightUnit

\* a step keeps classification_count = kept_count + filtered_count and lowers
\* none of the three counters
counters_kept ==
    /\ classifier'.classification_count
          = classifier'.kept_count + classifier'.filtered_count
    /\ classifier'.classification_count >= classifier.classification_count
    /\ classifier'.kept_count >= classifier.kept_count
    /\ classifier'.filtered_count >= classifier.filtered_count

\* C27 (classifier statistics): after any sequence of is_technical_skill and
\* batch_classify_skills calls, also calls that fail or fall back in the middle
\* of a batch, classification_count = kept_count + filtered_count and no
\* counter has decreased.
C27_CountersBalanced == [][counters_kept]_vars

\* a batch call of two batches whose second encode failed, after which the
\* first batch is counted; phrases were both kept and filtered before
C27_Witness ==
    /\ call.op = "batch_classify_skills"
    /\ classifier.available
    /\ Len(call.skills) = 2 /\ call.batch_size = 1
    /\ encoder[call.skills[1]].outcome = "ok"
    /\ encoder[call.skills[2]].outcome # "ok"
    /\ classifier.kept_count >= 1
    /\ classifier.filtered_count >= 1

\* how many times name occurs in the list
occurrences(list, name) == Cardinality({i \in DOMAIN list : list[i] = name})

\* C28 (tier lists partition the output): in every response each emitted skill
\* is in exactly one of important_skills, less_important_skills and
\* non_technical_skills (a name occurs in the three lists as often as it is
\* emitted, so the three lengths add up to the number of emitted skills), and
\* no skill for which the blacklist check holds is in important_skills.
C28_TiersPartitionResponse ==
    pc = "responded" =>
        /\ \A name \in Range(ret.skills) \cup Range(ret.important_skills)
                         \cup Range(ret.less_important_skills)
                         \cup Range(ret.non_technical_skills) :
              occurrences(ret.important_skills, name)
                  + occurrences(ret.less_important_skills, name)
                  + occurrences(ret.non_technical_skills, name)
                  = occurrences(ret.skills, name)
        /\ Len(ret.important_skills) + Len(ret.less_important_skills)
              + Len(ret.non_technical_skills) = Len(ret.skills)
        /\ \A i \in DOMAIN skill_tuples :
              (\/ is_blacklisted_skill(skill_tuples[i][1])
               \/ is_blacklisted_skill(ret.skills[i]))
                  => ret.skills[i] \notin Range(ret.important_skills)
        /\ \A name \in Range(ret.important_skills) : ~is_blacklisted_skill(name)

\* a response with a blacklisted skill of weight 2 and a skill that is not
\* blacklisted, the classifier available and the encoding of one of them failing
C28_Witness ==
    /\ pc = "responded"
    /\ classifier.available
    /\ Len(ret.skills) = 2
    /\ ret.important_skills # <<>>
    /\ \E i \in DOMAIN skill_tuples :
          /\ is_blacklisted_skill(skill_tuples[i][1])
          /\ skill_tuples[i][3] = 2 * WeightUnit
    /\ \E name \in Range(ret.skills) : encoder[name].outcome # "ok"

\* the extraction that has just returned gave the list that the other value of
\* use_context_filter gives, and no candidate outside the registry went past
\* the classifier step without being classified technical
context_filter_idle ==
    (pc = "loaded" /\ pc' = "extracted" /\ classifier.available) =>
        /\ matches' = extract_skills_with_phrasematcher(
                          request.text, skills_db, classifier,
                          ~request.use_context_filter).ret
        /\ \A i \in DOMAIN second_pass' :
              (~second_pass'[i].is_custom /\ second_pass'[i].outcome # "classifier")
                  => second_pass'[i].is_technical

\* C29 (context filter with the classifier available): when the classifier is
\* available, extract_skills_with_phrasematcher returns the same list with
\* use_context_filter = true and with use_context_filter = false, because every
\* non-custom candidate that reaches the context step has already been
\* classified technical.
C29_ContextFilterIdle == [][context_filter_idle]_vars

\* an extraction with the filter on and the classifier available that emitted
\* a candidate outside the registry whose first span has no skill context
C29_Witness ==
    /\ pc = "extracted"
    /\ classifier.available
    /\ request.use_context_filter
    /\ \E i \in DOMAIN second_pass :
          /\ ~second_pass[i].is_custom
          /\ second_pass[i].outcome = "emitted"
          /\ ~has_skill_context(matched_skills_data[i].spans[1],
                                preprocess(request.text))

\* the candidate is a name of two or more words
is_multi_word(matched_text) == Len(str_split(str_strip(str_lower(matched_text)))) >= 2

\* the ontology has an entry for the name and its type, lower-cased as the type
\* gate reads it, is one of ALLOWED_SKILL_TYPES
has_allowed_entry(matched_text) ==
    /\ get_skill_info(matched_text) # <<>>
    /\ str_lower(get_skill_info(matched_text)[1].type) \in ALLOWED_SKILL_TYPES

\* C30 (type gate in degraded mode): with the classifier unavailable, a
\* non-custom candidate of two or more words is emitted only if the ontology
\* has an entry for it whose type is in ALLOWED_SKILL_TYPES; without such an
\* entry it is never emitted, whether or not one of its words is in
\* SPECIFIC_SINGLE_WORD_SKILLS: when the context step lets it through, the type
\* gate is the step that rejects it.
C30_MultiWordNeedsOntologyEntry ==
    (pc = "extracted" /\ ~classifier.available) =>
        \A i \in DOMAIN second_pass :
            (~second_pass[i].is_custom /\ is_multi_word(second_pass[i].text)) =>
                /\ second_pass[i].outcome = "emitted"
                      => has_allowed_entry(second_pass[i].text)
                /\ ~has_allowed_entry(second_pass[i].text)
                      => second_pass[i].outcome \in {"context", "type"}

\* an extraction without the classifier and without an ontology entry for
\* "Spring Boot", whose word spring is whitelisted: the type gate rejected it
C30_Witness ==
    /\ pc = "extracted"
    /\ ~classifier.available
    /\ \E i \in DOMAIN second_pass :
          /\ ~second_pass[i].is_custom
          /\ is_multi_word(second_pass[i].text)
          /\ ~has_allowed_entry(second_pass[i].text)
          /\ \E w \in Range(str_split(str_lower(second_pass[i].text))) :
                w \in SPECIFIC_SINGLE_WORD_SKILLS
          /\ second_pass[i].outcome = "type"

\* an extraction without the classifier that emitted "Spring MVC", for which
\* the ontology has an entry of type framework
C30_EmittedWithEntry ==
    /\ pc = "extracted"
    /\ ~classifier.available
    /\ \E i \in DOMAIN second_pass :
          /\ ~second_pass[i].is_custom
          /\ is_multi_word(second_pass[i].text)
          /\ second_pass[i].outcome = "emitted"
====
